---------------------------- MODULE Spec2Model ----------------------------
(***************************************************************************)
(* Model of the libvirt REST controller: the shared image cache            *)
(* (internal/filesystem: DownloadCachedFile, DownloadFile, CopyFile) and   *)
(* the provisioning pipeline (handlers: CreateVMHandler).                  *)
(*                                                                         *)
(* One goroutine per inbound request; goroutines interleave at every       *)
(* system call (stat, create, write, chmod, HTTP GET, exec).               *)
(***************************************************************************)
EXTENDS Integers, Sequences, FiniteSets, TLC

VARIABLES
    env,        \* process environment: CACHE_DIR (a path, <<>> when unset) and
                \* CACHE_SECONDS (a character sequence, <<>> when unset)
    now,        \* wall clock (seconds); strictly increasing between stamps
    ticks,      \* number of idle clock advances taken so far
    dirs,       \* directories that exist
    files,      \* path -> regular file (exists, data, mtime, mode)
    pc,         \* per goroutine: position in its handler / function
    loc,        \* per goroutine: local variables of the running call
    resp,       \* per goroutine: what the current call returned
    gets,       \* locator -> number of HTTP GETs issued (network traffic)
    docs,       \* path -> text document in a VM directory (exists, text)
    isos,       \* VM directory -> its cloud-init.iso (exists, inputs)
    hyp,        \* hypervisor: defined and running domains, virsh commands issued
    sent,       \* webhook payloads posted to the event endpoint, in order
    rt          \* the process: package-level variables of internal/libvirt
                \* (once, conn), main, its goroutines, the done channel

vars == <<env, now, ticks, dirs, files, pc, loc, resp, gets, docs, isos, hyp, sent, rt>>

\* the state only the provisioning pipeline writes
pipeVars == <<docs, isos, hyp>>

\* the two http.Server values of main
Servers == {"api", "metrics"}

\* the process when main begins: no connection made, once not used, no
\* goroutine started, the done channel empty, no signal received
FreshProcess ==
    [alive |-> TRUE, once |-> "new", conn |-> 0, dials |-> 0, returned |-> {},
     main |-> "start", done |-> <<>>,
     gs |-> [s \in Servers |-> "none"], srv |-> [s \in Servers |-> "new"],
     received |-> 0, signals |-> 0, served |-> 0]

-----------------------------------------------------------------------------
(* Bounds *)

MaxTicks == 1       \* idle clock advances
BodyChunks == 2     \* writes io.Copy needs for one template body

\* net/http serves every inbound request on a goroutine of its own
Procs == {"g1", "g2"}

-----------------------------------------------------------------------------
(* Locators, paths, file contents *)

\* A locator is its slash-separated segments: host, then the file name.
URLs == { <<"h1", "img">>, <<"h2", "img">>, <<"h1", "iso">> }

Range(s) == { s[i] : i \in DOMAIN s }

Last(s) == s[Len(s)]

\* filepath.Base(url): the last path element
Base(url) == Last(url)

\* a path is the sequence of its elements; filepath.Join(dir, name)
Join(dir, name) == Append(dir, name)

\* the directory a path lies in
Parent(path) == SubSeq(path, 1, Len(path) - 1)

CacheDirName == <<"cache">>

CachePaths == { Join(CacheDirName, Base(u)) : u \in URLs }

\* destination of a stand-alone resolve call (CreateDiskHandler's imagePath)
DisksDir == <<"disks">>

DstOf(p) == Join(DisksDir, p)

DstPaths == { DstOf(p) : p \in Procs }

Hole == [src |-> <<>>, idx |-> 0]

\* the bytes the server sends for a locator, in io.Copy-sized pieces
Body(url) == [i \in 1..BodyChunks |-> [src |-> url, idx |-> i]]

NoFile == [exists |-> FALSE, data |-> <<>>, mtime |-> 0, mode |-> "none", size |-> 0]

RequestedMode == "0660"

\* os.Create: create or truncate, mode 0666 before umask
OsCreate(f, t) ==
    [exists |-> TRUE, data |-> <<>>, mtime |-> t,
     mode |-> IF f.exists THEN f.mode ELSE "0666", size |-> 0]

\* out.Write at the descriptor's own offset (0-based); a gap reads as zeros
WriteAt(f, off, chunk, t) ==
    LET n == IF Len(f.data) > off + 1 THEN Len(f.data) ELSE off + 1
        d == [i \in 1..n |-> IF i = off + 1 THEN chunk
                             ELSE IF i <= Len(f.data) THEN f.data[i]
                             ELSE Hole]
    IN [f EXCEPT !.data = d, !.mtime = t]

Complete(f, url) == f.exists /\ f.data = Body(url)

-----------------------------------------------------------------------------
(* Configuration: CACHE_SECONDS parsing *)

Digits == [c \in {"0","1","2","3","4","5","6","7","8","9"} |->
             CASE c = "0" -> 0 [] c = "1" -> 1 [] c = "2" -> 2 [] c = "3" -> 3
               [] c = "4" -> 4 [] c = "5" -> 5 [] c = "6" -> 6 [] c = "7" -> 7
               [] c = "8" -> 8 [] c = "9" -> 9]

RECURSIVE AtoiDigits(_, _)
\* the digit loop of strconv.Atoi: n = n*10 + (ch - '0'), error on a non-digit
AtoiDigits(s, n) ==
    IF s = <<>> THEN [ok |-> TRUE, val |-> n]
    ELSE IF Head(s) \notin DOMAIN Digits THEN [ok |-> FALSE, val |-> 0]
    ELSE AtoiDigits(Tail(s), n * 10 + Digits[Head(s)])

\* variant: a parse that stops at the first non-digit instead of failing
Atoi_Lenient(s) ==
    IF s # <<>> /\ Head(s) \in DOMAIN Digits
    THEN [ok |-> TRUE, val |-> Digits[Head(s)]]
    ELSE [ok |-> FALSE, val |-> 0]

\* strconv.Atoi: optional sign, at least one digit, digits only
Atoi(s) ==
    LET signed == s # <<>> /\ Head(s) \in {"-", "+"}
        body == IF signed THEN Tail(s) ELSE s
        r == AtoiDigits(body, 0)
    IN IF body = <<>> \/ ~r.ok THEN [ok |-> FALSE, val |-> 0]
       ELSE [ok |-> TRUE, val |-> IF signed /\ Head(s) = "-" THEN 0 - r.val ELSE r.val]

DefaultCacheSeconds == 604800

\* variant: a configured 0 is taken for "not configured"
CacheDuration_ZeroUnset(str) ==
    IF str # <<>> /\ Atoi(str).ok /\ Atoi(str).val # 0
    THEN Atoi(str).val
    ELSE DefaultCacheSeconds

\* DownloadCachedFile, "Determine cache duration" (in seconds)
CacheDuration(str) ==
    IF str # <<>>
    THEN IF Atoi(str).ok THEN Atoi(str).val ELSE DefaultCacheSeconds
    ELSE DefaultCacheSeconds

\* values CACHE_SECONDS takes in the model
CacheSecondsValues ==
    { <<>>, <<"0">>, <<"2">>, <<"-", "1">>, <<"1", "0">>, <<"2", "x">> }


\* the environments a process is started with
\* the storage path requests name for their disks, also DEFINITIONS_DIR
StoragePath == <<"data", "vm">>

\* another storage path a request may name for its disks
OtherStoragePath == <<"mnt">>

Roots == {StoragePath, OtherStoragePath}

EnvValues ==
    { [CACHE_DIR |-> <<>>, CACHE_SECONDS |-> s, DEFINITIONS_DIR |-> StoragePath] :
        s \in { <<>> } }
    \cup { [CACHE_DIR |-> CacheDirName, CACHE_SECONDS |-> s, DEFINITIONS_DIR |-> StoragePath] :
        s \in CacheSecondsValues }

-----------------------------------------------------------------------------
(* Requests and VM directories (handlers: VMRequest, CreateVMHandler) *)

VMIDs == {"vm1", "vm2"}

VMDirs == { Join(r, id) : r \in Roots, id \in VMIDs }

\* texts are character sequences; <<>> is the empty string
NoCloudInit ==
    [metaData |-> <<>>, vendorData |-> <<>>, userData |-> <<>>, networkConfig |-> <<>>]

SomeCloudInit ==
    [metaData |-> <<"m">>, vendorData |-> <<>>, userData |-> <<>>, networkConfig |-> <<"n">>]

\* a well-formed VMRequest; the XML document names its domain
GoodRequest(id, url, ci) ==
    [body |-> "json", id |-> id, xmlConfig |-> <<"domain", id>>,
     template |-> [nil |-> FALSE, imageURL |-> url],
     disks |-> << [id |-> 0, capacity |-> 10, path |-> StoragePath] >>,
     cloudInit |-> ci]

BaseRequest == GoodRequest("vm1", <<"h1", "img">>, NoCloudInit)

\* requests the validation of CreateVMHandler rejects
BadRequests ==
    { [BaseRequest EXCEPT !.body = "empty"],
      [BaseRequest EXCEPT !.body = "invalid"],
      [BaseRequest EXCEPT !.id = ""],
      [BaseRequest EXCEPT !.xmlConfig = <<>>],
      [BaseRequest EXCEPT !.template = [nil |-> TRUE, imageURL |-> <<>>]],
      [BaseRequest EXCEPT !.template = [nil |-> FALSE, imageURL |-> <<>>]],
      [BaseRequest EXCEPT !.disks = <<>>] }

CreateRequests ==
    { GoodRequest("vm1", <<"h1", "img">>, NoCloudInit),
      GoodRequest("vm1", <<"h1", "img">>, SomeCloudInit),
      GoodRequest("vm2", <<"h2", "img">>, NoCloudInit) }
    \cup BadRequests

\* variant: the template source is not checked
Validate_NoTemplateCheck(req) ==
    IF req.body = "empty" THEN "Empty request body"
    ELSE IF req.body = "invalid" THEN "Invalid JSON"
    ELSE IF req.id = "" THEN "Missing 'vm.id'"
    ELSE IF req.xmlConfig = <<>> THEN "Missing 'xmlConfig'"
    ELSE IF Len(req.disks) = 0 THEN "Missing 'disks'"
    ELSE ""

\* CreateVMHandler lines 56-93: body and required-field checks, in order;
\* "" when the request passes
Validate(req) ==
    IF req.body = "empty" THEN "Empty request body"
    ELSE IF req.body = "invalid" THEN "Invalid JSON"
    ELSE IF req.id = "" THEN "Missing 'vm.id'"
    ELSE IF req.xmlConfig = <<>> THEN "Missing 'xmlConfig'"
    ELSE IF req.template.nil \/ req.template.imageURL = <<>>
         THEN "Missing 'template.imageURL'"
    ELSE IF Len(req.disks) = 0 THEN "Missing 'disks'"
    ELSE ""

\* vmDir := filepath.Join(firstDisk.Storage.Path, vmID)
VMDirOf(req) == Join(req.disks[1].path, req.id)

\* fmt.Sprintf("%.0f.img", firstDisk.ID)
DiskFileName(id) == CASE id = 0 -> "0.img" [] id = 1 -> "1.img"

\* imagePath := filepath.Join(vmDir, fmt.Sprintf("%.0f.img", firstDisk.ID))
ImagePathOf(req) == Join(VMDirOf(req), DiskFileName(req.disks[1].id))

CloudInitNames == {"meta-data", "vendor-data", "user-data", "network-config"}

\* the cloudInitFiles map of CreateVMHandler (lines 136-141)
CloudInitFiles(req) ==
    [n \in CloudInitNames |->
        CASE n = "meta-data" -> req.cloudInit.metaData
          [] n = "vendor-data" -> req.cloudInit.vendorData
          [] n = "user-data" -> req.cloudInit.userData
          [] n = "network-config" -> req.cloudInit.networkConfig]

\* the files GenerateCloudInitISO looks for (helpers, lines 28-33)
IsoCandidates == {"meta-data", "vendor-data", "user-data", "network-data"}

DocNames == {"server.json", "server.xml"} \cup CloudInitNames \cup IsoCandidates

DocPaths == { Join(d, n) : d \in VMDirs, n \in DocNames }

ImagePaths == { Join(d, DiskFileName(0)) : d \in VMDirs }

NoDoc == [exists |-> FALSE, text |-> <<>>]

NoIso == [exists |-> FALSE, inputs |-> {}]

\* the domain name an XML document declares
XMLName(xml) == xml[2]

-----------------------------------------------------------------------------
(* Clock *)

\* idle time that may pass between two system events
TickSteps == { DefaultCacheSeconds - 1 }

Tick(d) ==
    /\ ticks < MaxTicks
    /\ now' = now + d
    /\ ticks' = ticks + 1
    /\ UNCHANGED <<rt, sent, env, dirs, files, pc, loc, resp, gets, pipeVars>>

-----------------------------------------------------------------------------
(* internal/filesystem: DownloadCachedFile, DownloadFile, CopyFile *)

Reply(code, msg) == [code |-> code, msg |-> msg]

NoRequest == [body |-> "none"]

IdleLoc ==
    [op |-> "none", url |-> <<>>, dst |-> <<>>, target |-> <<>>, off |-> 0,
     dur |-> 0, dlCalls |-> 0, uncached |-> FALSE,
     req |-> NoRequest, vmDir |-> <<>>, pending |-> {}, steps |-> <<>>,
     failedAt |-> "none", handler |-> "none", out |-> <<>>]

\* variant: the error is written but the handler does not return
CreateFail_NoReturn(p, at, msg, l) ==
    /\ UNCHANGED pc
    /\ loc' = [loc EXCEPT ![p] = [l EXCEPT !.failedAt = at]]
    /\ resp' = [resp EXCEPT ![p] = Reply("500", msg)]

\* an error reply of a handler in the middle of its steps:
\* utils.JSONErrorResponse(w, msg, http.StatusInternalServerError); return
CreateFail(p, at, msg, l) ==
    /\ pc' = [pc EXCEPT ![p] = "done"]
    /\ loc' = [loc EXCEPT ![p] = [l EXCEPT !.failedAt = at]]
    /\ resp' = [resp EXCEPT ![p] = Reply("500", msg)]

\* what os.Stat(path) finds: a directory, a regular file, or nothing
StatKind(path) ==
    IF path \in dirs THEN "dir"
    ELSE IF path \in DOMAIN files /\ files[path].exists THEN "file"
    ELSE "absent"

\* FileExists(path): !os.IsNotExist(stat error)
FileExists(path) == files[path].exists

\* variant: an existing file never counts as older
IsFileOlderThan_Never(path, duration) == ~files[path].exists

\* IsFileOlderThan(path, duration): stat error counts as older;
\* otherwise time.Since(ModTime) > duration
IsFileOlderThan(path, duration) ==
    IF ~files[path].exists THEN TRUE
    ELSE now - files[path].mtime > duration

\* variant: an unset CACHE_DIR falls back to a default directory
CacheDir_Defaulted == IF env.CACHE_DIR = <<>> THEN CacheDirName ELSE env.CACHE_DIR

\* cacheDir := os.Getenv("CACHE_DIR")
CacheDir == env.CACHE_DIR

\* useCache := cacheDir != ""
UseCache == CacheDir # <<>>

\* fileName := filepath.Base(url); cacheFilePath := filepath.Join(cacheDir, fileName)
CacheFilePath(url) == Join(CacheDir, Base(url))

\* where a finished DownloadCachedFile hands control back to: the stand-alone
\* caller gets the error value; CreateVMHandler (lines 161-164) answers 500 on
\* an error and goes on to ResizeDisk otherwise.  l is the caller's locals.
ResolveReturn(p, err, l) ==
    IF l.op = "create"
    THEN IF err = "nil"
         THEN /\ pc' = [pc EXCEPT ![p] = "c_resize"]
              /\ loc' = [loc EXCEPT ![p] = [l EXCEPT !.steps = Append(@, "resolve")]]
              /\ UNCHANGED resp
         ELSE CreateFail(p, "c_download", "Failed to download image", l)
    ELSE /\ pc' = [pc EXCEPT ![p] = "done"]
         /\ loc' = [loc EXCEPT ![p] = l]
         /\ resp' = [resp EXCEPT ![p] = IF err = "nil" THEN Reply("ok", "resolved")
                                        ELSE Reply("err", err)]

\* a stand-alone resolve request (CreateDiskHandler -> DownloadCachedFile)
ResolveCall(p, u) ==
    /\ pc[p] = "idle"
    /\ pc' = [pc EXCEPT ![p] = "r_entry"]
    /\ loc' = [loc EXCEPT ![p] = [IdleLoc EXCEPT !.op = "resolve", !.url = u,
                                                  !.dst = DstOf(p)]]
    /\ resp' = [resp EXCEPT ![p] = Reply("pending", "")]
    /\ UNCHANGED <<rt, sent, env, now, ticks, dirs, files, gets, pipeVars>>

\* DownloadCachedFile lines 101-130: read the environment, compute the
\* duration, bypass the cache when CACHE_DIR is empty, else MkdirAll(cacheDir)
DownloadCachedFile_Entry(p) ==
    /\ pc[p] = "r_entry"
    /\ LET dur == CacheDuration(env.CACHE_SECONDS)
           l1 == [loc[p] EXCEPT !.dur = dur]
       IN IF ~UseCache
          THEN /\ loc' = [loc EXCEPT ![p] = [l1 EXCEPT !.target = loc[p].dst,
                                                        !.dlCalls = @ + 1]]
               /\ pc' = [pc EXCEPT ![p] = "dl_create"]
               /\ UNCHANGED <<dirs, resp>>
          ELSE \E ok \in BOOLEAN :
                 IF ok \/ CacheDir \in dirs
                 THEN /\ dirs' = dirs \cup {CacheDir}
                      /\ loc' = [loc EXCEPT ![p] =
                                    [l1 EXCEPT !.uncached =
                                        ~FileExists(CacheFilePath(loc[p].url))]]
                      /\ pc' = [pc EXCEPT ![p] = "r_check"]
                      /\ UNCHANGED resp
                 ELSE /\ ResolveReturn(p, "mkdir", l1)
                      /\ UNCHANGED dirs
    /\ UNCHANGED <<rt, sent, env, now, ticks, files, gets, pipeVars>>

\* DownloadCachedFile lines 132-143: the freshness decision
DownloadCachedFile_Check(p) ==
    /\ pc[p] = "r_check"
    /\ LET path == CacheFilePath(loc[p].url)
           hit == FileExists(path) /\ ~IsFileOlderThan(path, loc[p].dur)
       IN IF hit
          THEN /\ pc' = [pc EXCEPT ![p] = "r_copy"]
               /\ UNCHANGED loc
          ELSE /\ pc' = [pc EXCEPT ![p] = "dl_create"]
               /\ loc' = [loc EXCEPT ![p].target = path,
                                     ![p].dlCalls = @ + 1]
    /\ UNCHANGED <<rt, sent, env, now, ticks, dirs, files, resp, gets, pipeVars>>

\* what DownloadCachedFile does with DownloadFile's result (lines 123,
\* 143-149): return it when the cache is bypassed or on an error, else copy
DownloadFile_Return(p, err, l) ==
    IF err = "nil" /\ l.target # l.dst
    THEN /\ pc' = [pc EXCEPT ![p] = "r_copy"]
         /\ loc' = [loc EXCEPT ![p] = l]
         /\ UNCHANGED resp
    ELSE ResolveReturn(p, err, l)

\* DownloadFile: os.Create(filePath)
DownloadFile_Create(p) ==
    /\ pc[p] = "dl_create"
    /\ LET t == loc[p].target IN
       \E ok \in BOOLEAN :
         IF ok /\ Parent(t) \in dirs
         THEN /\ files' = [files EXCEPT ![t] = OsCreate(@, now)]
              /\ now' = now + 1
              /\ pc' = [pc EXCEPT ![p] = "dl_get"]
              /\ UNCHANGED <<resp, loc>>
         ELSE /\ DownloadFile_Return(p, "create", loc[p])
              /\ UNCHANGED <<files, now>>
    /\ UNCHANGED <<rt, sent, env, ticks, dirs, gets, pipeVars>>

\* DownloadFile: http.Get(url) and the status check
DownloadFile_Get(p) ==
    /\ pc[p] = "dl_get"
    /\ gets' = [gets EXCEPT ![loc[p].url] = @ + 1]
    /\ \E outcome \in {"200", "connect", "status"} :
         IF outcome = "200"
         THEN /\ pc' = [pc EXCEPT ![p] = "dl_copy"]
              /\ loc' = [loc EXCEPT ![p].off = 0]
              /\ UNCHANGED resp
         ELSE DownloadFile_Return(p, outcome, loc[p])
    /\ UNCHANGED <<rt, sent, env, now, ticks, dirs, files, pipeVars>>

\* DownloadFile: io.Copy(out, resp.Body), one write per step
DownloadFile_Copy(p) ==
    /\ pc[p] = "dl_copy"
    /\ LET t == loc[p].target
           k == loc[p].off
       IN \E ok \in BOOLEAN :
            IF ok
            THEN /\ files' = [files EXCEPT ![t] =
                                 IF @.exists
                                 THEN WriteAt(@, k, Body(loc[p].url)[k + 1], now)
                                 ELSE @]
                 /\ now' = now + 1
                 /\ loc' = [loc EXCEPT ![p].off = k + 1]
                 /\ pc' = [pc EXCEPT ![p] =
                              IF k + 1 = BodyChunks THEN "dl_chmod" ELSE "dl_copy"]
                 /\ UNCHANGED resp
            ELSE /\ DownloadFile_Return(p, "body", loc[p])
                 /\ UNCHANGED <<files, now>>
    /\ UNCHANGED <<rt, sent, env, ticks, dirs, gets, pipeVars>>

\* DownloadFile: os.Chmod(filePath, mode)
DownloadFile_Chmod(p) ==
    /\ pc[p] = "dl_chmod"
    /\ LET t == loc[p].target IN
       \E ok \in BOOLEAN :
         IF ok /\ files[t].exists
         THEN /\ files' = [files EXCEPT ![t].mode = RequestedMode]
              /\ DownloadFile_Return(p, "nil", loc[p])
         ELSE /\ DownloadFile_Return(p, "chmod", loc[p])
              /\ UNCHANGED files
    /\ UNCHANGED <<rt, sent, env, now, ticks, dirs, gets, pipeVars>>

\* a copy that also stamps the source with the time of the copy
CopyFile_Touch(p) ==
    /\ pc[p] = "r_copy"
    /\ LET src == CacheFilePath(loc[p].url)
           dst == loc[p].dst
       IN \E outcome \in {"nil", "create", "copy", "chmod"} :
            /\ IF ~files[src].exists \/ Parent(dst) \notin dirs \/ outcome = "create"
               THEN /\ UNCHANGED <<files, now>>
                    /\ ResolveReturn(p, IF ~files[src].exists THEN "open" ELSE "create",
                                     loc[p])
               ELSE /\ files' = [files EXCEPT ![src].mtime = now, ![dst] =
                          [exists |-> TRUE,
                           data |-> IF outcome = "copy" THEN <<>> ELSE files[src].data,
                           mtime |-> now,
                           mode |-> IF outcome = "nil" THEN RequestedMode
                                    ELSE IF @.exists THEN @.mode ELSE "0666",
                           size |-> IF outcome = "copy" THEN 0 ELSE files[src].size]]
                    /\ now' = now + 1
                    /\ ResolveReturn(p, outcome, loc[p])
    /\ UNCHANGED <<rt, sent, env, ticks, dirs, gets, pipeVars>>

\* CopyFile(cacheFilePath, name, mode): open, create, io.Copy, chmod
CopyFile(p) ==
    /\ pc[p] = "r_copy"
    /\ LET src == CacheFilePath(loc[p].url)
           dst == loc[p].dst
       IN \E outcome \in {"nil", "create", "copy", "chmod"} :
            /\ IF ~files[src].exists \/ Parent(dst) \notin dirs \/ outcome = "create"
               THEN /\ UNCHANGED <<files, now>>
                    /\ ResolveReturn(p, IF ~files[src].exists THEN "open" ELSE "create",
                                     loc[p])
               ELSE /\ files' = [files EXCEPT ![dst] =
                          [exists |-> TRUE,
                           data |-> IF outcome = "copy" THEN <<>> ELSE files[src].data,
                           mtime |-> now,
                           mode |-> IF outcome = "nil" THEN RequestedMode
                                    ELSE IF @.exists THEN @.mode ELSE "0666",
                           size |-> IF outcome = "copy" THEN 0 ELSE files[src].size]]
                    /\ now' = now + 1
                    /\ ResolveReturn(p, outcome, loc[p])
    /\ UNCHANGED <<rt, sent, env, ticks, dirs, gets, pipeVars>>

-----------------------------------------------------------------------------
(* The cache on its own: concurrent resolve requests *)

AllPaths == CachePaths \cup DstPaths \cup ImagePaths \cup VMDirs

\* what an earlier run of the service may have left in the cache directory
LeftoverCaches ==
    { [q \in AllPaths |-> NoFile],
      [q \in AllPaths |->
          IF q = Join(CacheDirName, "img")
          THEN [exists |-> TRUE, data |-> Body(<<"h1", "img">>), mtime |-> 0,
                mode |-> RequestedMode, size |-> 0]
          ELSE NoFile] }

InitCache ==
    /\ env \in EnvValues
    /\ now = 1
    /\ ticks = 0
    /\ files \in LeftoverCaches
    /\ dirs = {DisksDir} \cup (IF files[Join(CacheDirName, "img")].exists
                              THEN {CacheDirName} ELSE {})
    /\ pc = [p \in Procs |-> "idle"]
    /\ loc = [p \in Procs |-> IdleLoc]
    /\ resp = [p \in Procs |-> Reply("none", "")]
    /\ gets = [u \in URLs |-> 0]
    /\ sent = <<>>
    /\ rt = FreshProcess
    /\ docs = [d \in DocPaths |-> NoDoc]
    /\ isos = [d \in VMDirs |-> NoIso]
    /\ hyp = [defined |-> {}, running |-> {}, log |-> <<>>]

NextCache ==
    \/ \E p \in Procs, u \in URLs : ResolveCall(p, u)
    \/ \E p \in Procs : DownloadCachedFile_Entry(p)
    \/ \E p \in Procs : DownloadCachedFile_Check(p)
    \/ \E p \in Procs : DownloadFile_Create(p)
    \/ \E p \in Procs : DownloadFile_Get(p)
    \/ \E p \in Procs : DownloadFile_Copy(p)
    \/ \E p \in Procs : DownloadFile_Chmod(p)
    \/ \E p \in Procs : CopyFile(p)
    \/ \E d \in TickSteps : Tick(d)

SpecCache == InitCache /\ [][NextCache]_vars

-----------------------------------------------------------------------------
(* handlers: CreateVMHandler, one action per fallible step *)

\* CreateVMHandler lines 56-96: read and validate the request
CreateVMHandler_Begin(p, req) ==
    /\ pc[p] = "idle"
    /\ IF Validate(req) # ""
       THEN /\ pc' = [pc EXCEPT ![p] = "done"]
            /\ loc' = [loc EXCEPT ![p] = [IdleLoc EXCEPT !.op = "create", !.req = req]]
            /\ resp' = [resp EXCEPT ![p] = Reply("400", Validate(req))]
       ELSE /\ pc' = [pc EXCEPT ![p] = "c_stat"]
            /\ loc' = [loc EXCEPT ![p] =
                          [IdleLoc EXCEPT !.op = "create", !.req = req,
                              !.vmDir = VMDirOf(req),
                              !.url = req.template.imageURL,
                              !.dst = ImagePathOf(req),
                              !.pending = { n \in CloudInitNames :
                                              CloudInitFiles(req)[n] # <<>> }]]
            /\ resp' = [resp EXCEPT ![p] = Reply("pending", "")]
    /\ UNCHANGED <<rt, sent, env, now, ticks, dirs, files, gets, pipeVars>>

\* filesystem.CreateDirectory: os.Stat(path) succeeding is an error
CreateDirectory_Stat(p) ==
    /\ pc[p] = "c_stat"
    /\ IF StatKind(loc[p].vmDir) # "absent"
       THEN CreateFail(p, "c_stat", "VM directory already exists", loc[p])
       ELSE /\ pc' = [pc EXCEPT ![p] = "c_mkdir"]
            /\ UNCHANGED <<loc, resp>>
    /\ UNCHANGED <<rt, sent, env, now, ticks, dirs, files, gets, pipeVars>>

\* what the caller of CreateDirectory does next: CreateVMHandler saves the
\* request, UpdateVMHandler removes the existing files
AfterMkdir(l) ==
    IF l.op = "update" THEN "u_body"
    ELSE IF l.op = "mkdir" THEN "ret" ELSE "c_json"

\* filesystem.CreateDirectory: os.MkdirAll(path, mode)
CreateDirectory_Mkdir(p) ==
    /\ pc[p] = "c_mkdir"
    /\ \E ok \in BOOLEAN :
         IF ok /\ StatKind(loc[p].vmDir) # "file"
         THEN /\ dirs' = dirs \cup {loc[p].vmDir, Parent(loc[p].vmDir)}
              /\ pc' = [pc EXCEPT ![p] = AfterMkdir(loc[p])]
              /\ loc' = [loc EXCEPT ![p].steps = Append(@, "mkdir")]
              /\ UNCHANGED resp
         ELSE /\ CreateFail(p, "c_mkdir", "Failed to create VM directory", loc[p])
              /\ UNCHANGED dirs
    /\ UNCHANGED <<rt, sent, env, now, ticks, files, gets, pipeVars>>

\* os.MkdirAll(path, perm): nil for a directory, an error for a path that
\* is a regular file, else the directory and its missing parents are made
MkdirAll(path, ok) ==
    IF StatKind(path) = "dir" THEN [err |-> "nil", dirs |-> dirs]
    ELSE IF StatKind(path) = "file" THEN [err |-> "not a directory", dirs |-> dirs]
    ELSE IF ~ok THEN [err |-> "permission denied", dirs |-> dirs]
    ELSE [err |-> "nil", dirs |-> dirs \cup {path, Parent(path)}]

\* filesystem.CreateDirectory of directory.go lines 10-12 inside a handler:
\* os.MkdirAll, which a directory that is already there does not stop
CreateDirectory_All(p) ==
    /\ pc[p] = "c_stat"
    /\ \E ok \in BOOLEAN :
         LET r == MkdirAll(loc[p].vmDir, ok) IN
         IF r.err = "nil"
         THEN /\ dirs' = r.dirs
              /\ pc' = [pc EXCEPT ![p] = AfterMkdir(loc[p])]
              /\ loc' = [loc EXCEPT ![p].steps = Append(@, "mkdirall")]
              /\ UNCHANGED resp
         ELSE /\ CreateFail(p, "c_mkdir", r.err, loc[p])
              /\ UNCHANGED dirs
    /\ UNCHANGED <<rt, sent, env, now, ticks, files, gets, pipeVars>>

\* filesystem.SaveFile(dir, filename, data): os.WriteFile
SaveFile(dir, filename, data) ==
    [docs EXCEPT ![Join(dir, filename)] = [exists |-> TRUE, text |-> data]]

\* variant: the domain is defined as soon as server.xml is saved
AfterXML_DefineFirst(l) == "c_define"

\* what follows the save of server.xml: DefineDomainHandler defines the
\* domain, CreateVMHandler goes on with the cloud-init files and the image
AfterXML(l) ==
    IF l.op = "define" THEN "c_define"
    ELSE IF l.pending = {} THEN "c_iso" ELSE "c_ci"

\* CreateVMHandler lines 105-124: save the indented request as server.json
CreateVMHandler_SaveJSON(p) ==
    /\ pc[p] = "c_json"
    /\ \E ok \in BOOLEAN :
         IF ok /\ loc[p].vmDir \in dirs
         THEN /\ docs' = SaveFile(loc[p].vmDir, "server.json", <<loc[p].req>>)
              /\ pc' = [pc EXCEPT ![p] = "c_xml"]
              /\ loc' = [loc EXCEPT ![p].steps = Append(@, "server.json")]
              /\ UNCHANGED resp
         ELSE /\ CreateFail(p, "c_json", "Failed to save request body", loc[p])
              /\ UNCHANGED docs
    /\ UNCHANGED <<rt, sent, env, now, ticks, dirs, files, gets, isos, hyp>>

\* CreateVMHandler lines 126-133, DefineDomainHandler lines 81-90: save the
\* XML configuration as server.xml
CreateVMHandler_SaveXML(p) ==
    /\ pc[p] = "c_xml"
    /\ \E ok \in BOOLEAN :
         IF ok /\ loc[p].vmDir \in dirs
         THEN /\ docs' = SaveFile(loc[p].vmDir, "server.xml", loc[p].req.xmlConfig)
              /\ pc' = [pc EXCEPT ![p] = AfterXML(loc[p])]
              /\ loc' = [loc EXCEPT ![p].steps = Append(@, "server.xml")]
              /\ UNCHANGED resp
         ELSE /\ CreateFail(p, "c_xml", "Failed to save XML config", loc[p])
              /\ UNCHANGED docs
    /\ UNCHANGED <<rt, sent, env, now, ticks, dirs, files, gets, isos, hyp>>

\* CreateVMHandler lines 143-150: one iteration of the loop over the
\* cloudInitFiles map (Go iterates a map in no fixed order) that finds a
\* non-empty content and saves it
CreateVMHandler_SaveCloudInit(p) ==
    /\ pc[p] = "c_ci"
    /\ \E n \in loc[p].pending, ok \in BOOLEAN :
         IF ok /\ loc[p].vmDir \in dirs
         THEN /\ docs' = SaveFile(loc[p].vmDir, n, CloudInitFiles(loc[p].req)[n])
              /\ pc' = [pc EXCEPT ![p] =
                           IF loc[p].pending = {n} THEN "c_iso" ELSE "c_ci"]
              /\ loc' = [loc EXCEPT ![p].steps = Append(@, n),
                                    ![p].pending = @ \ {n}]
              /\ UNCHANGED resp
         ELSE /\ CreateFail(p, "c_ci", "Failed to save cloud-init file", loc[p])
              /\ UNCHANGED docs
    /\ UNCHANGED <<rt, sent, env, now, ticks, dirs, files, gets, isos, hyp>>

\* helpers.GenerateCloudInitISO(dir): keep the candidates that exist,
\* substitute /dev/null when none does, run genisoimage
GenerateCloudInitISO(p) ==
    /\ pc[p] = "c_iso"
    /\ LET dir == loc[p].vmDir
           validFiles == { f \in IsoCandidates : docs[Join(dir, f)].exists }
           inputs == IF validFiles = {} THEN {"/dev/null"} ELSE validFiles
       IN \E ok \in BOOLEAN :
            IF ok /\ dir \in dirs
            THEN /\ isos' = [isos EXCEPT ![dir] = [exists |-> TRUE, inputs |-> inputs]]
                 /\ pc' = [pc EXCEPT ![p] = "r_entry"]
                 /\ loc' = [loc EXCEPT ![p].steps = Append(@, "iso")]
                 /\ UNCHANGED resp
            ELSE /\ CreateFail(p, "c_iso", "Failed to create cloud-init ISO", loc[p])
                 /\ UNCHANGED isos
    /\ UNCHANGED <<rt, sent, env, now, ticks, dirs, files, gets, docs, hyp>>

\* helpers.ResizeDisk(imagePath, firstDisk.Capacity): qemu-img resize
ResizeDisk(p) ==
    /\ pc[p] = "c_resize"
    /\ LET img == loc[p].dst IN
       \E ok \in BOOLEAN :
         IF ok /\ files[img].exists
         THEN /\ files' = [files EXCEPT ![img].size = loc[p].req.disks[1].capacity]
              /\ pc' = [pc EXCEPT ![p] = "c_define"]
              /\ loc' = [loc EXCEPT ![p].steps = Append(@, "resize")]
              /\ UNCHANGED resp
         ELSE /\ CreateFail(p, "c_resize", "Failed to resize disk", loc[p])
              /\ UNCHANGED files
    /\ UNCHANGED <<rt, sent, env, now, ticks, dirs, gets, pipeVars>>

\* the argument CreateVMHandler hands to define: vmDir + "/" + "server.xml"
DefineArg(l) == Join(l.vmDir, "server.xml")

\* libvirt.DefineDomain(path): virsh define, then the success reply
\* (CreateVMHandler lines 171-188, DefineDomainHandler lines 92-110)
DefineDomain(p) ==
    /\ pc[p] = "c_define"
    /\ LET arg == DefineArg(loc[p])
           issued == Append(hyp.log, [cmd |-> "define", arg |-> arg, by |-> p])
       IN \E ok \in BOOLEAN :
            IF ok /\ docs[arg].exists
            THEN /\ hyp' = [hyp EXCEPT !.defined = @ \cup {XMLName(docs[arg].text)},
                                       !.log = issued]
                 /\ pc' = [pc EXCEPT ![p] = "done"]
                 /\ loc' = [loc EXCEPT ![p].steps = Append(@, "define")]
                 /\ resp' = [resp EXCEPT ![p] =
                               IF loc[p].op = "define"
                               THEN Reply("201", "Domain defined")
                               ELSE Reply("200", "VM configuration created")]
            ELSE /\ hyp' = [hyp EXCEPT !.log = issued]
                 /\ CreateFail(p, "c_define", "Failed to define domain", loc[p])
    /\ UNCHANGED <<rt, sent, env, now, ticks, dirs, files, gets, docs, isos>>

-----------------------------------------------------------------------------
(* handlers: DefineDomainHandler *)

DefineRequests ==
    { [body |-> "json", id |-> "vm1", xmlConfig |-> <<"domain", "vm1">>],
      [body |-> "empty", id |-> "", xmlConfig |-> <<>>],
      [body |-> "invalid", id |-> "", xmlConfig |-> <<>>],
      [body |-> "json", id |-> "", xmlConfig |-> <<"domain", "vm1">>],
      [body |-> "json", id |-> "vm1", xmlConfig |-> <<>>] }

\* DefineDomainHandler lines 38-61: body and required-field checks
ValidateDefine(req) ==
    IF req.body = "empty" THEN "Empty request body"
    ELSE IF req.body = "invalid" THEN "Invalid JSON"
    ELSE IF req.id = "" THEN "Missing 'id'"
    ELSE IF req.xmlConfig = <<>> THEN "Missing 'xmlConfig'"
    ELSE ""

\* DefineDomainHandler lines 30-71: validate, read DEFINITIONS_DIR
DefineDomainHandler_Begin(p, req) ==
    /\ pc[p] = "idle"
    /\ LET l == [IdleLoc EXCEPT !.op = "define", !.req = req] IN
       IF ValidateDefine(req) # ""
       THEN /\ pc' = [pc EXCEPT ![p] = "done"]
            /\ loc' = [loc EXCEPT ![p] = l]
            /\ resp' = [resp EXCEPT ![p] = Reply("400", ValidateDefine(req))]
       ELSE IF env.DEFINITIONS_DIR = <<>>
       THEN CreateFail(p, "d_env", "DEFINITIONS_DIR environment variable not set", l)
       ELSE /\ pc' = [pc EXCEPT ![p] = "d_mkdir"]
            /\ loc' = [loc EXCEPT ![p] =
                          [l EXCEPT !.vmDir = Join(env.DEFINITIONS_DIR, req.id)]]
            /\ resp' = [resp EXCEPT ![p] = Reply("pending", "")]
    /\ UNCHANGED <<rt, sent, env, now, ticks, dirs, files, gets, pipeVars>>

\* filesystem.CreateDirectory as DefineDomainHandler expects it:
\* os.MkdirAll, nil when the directory already exists
DefineDomainHandler_Mkdir(p) ==
    /\ pc[p] = "d_mkdir"
    /\ \E ok \in BOOLEAN :
         IF ok
         THEN /\ dirs' = dirs \cup {loc[p].vmDir, Parent(loc[p].vmDir)}
              /\ pc' = [pc EXCEPT ![p] = "c_xml"]
              /\ loc' = [loc EXCEPT ![p].steps = Append(@, "mkdir")]
              /\ UNCHANGED resp
         ELSE /\ CreateFail(p, "d_mkdir", "Failed to create VM directory", loc[p])
              /\ UNCHANGED dirs
    /\ UNCHANGED <<rt, sent, env, now, ticks, files, gets, pipeVars>>

-----------------------------------------------------------------------------
(* The provisioning pipeline: concurrent Create and Define requests *)

\* the environments the pipeline is run with: cache bypassed, or enabled
\* with a short window
PipelineEnvValues ==
    { [CACHE_DIR |-> <<>>, CACHE_SECONDS |-> <<>>, DEFINITIONS_DIR |-> StoragePath],
      [CACHE_DIR |-> <<>>, CACHE_SECONDS |-> <<>>, DEFINITIONS_DIR |-> <<>>],
      [CACHE_DIR |-> CacheDirName, CACHE_SECONDS |-> <<"2">>,
       DEFINITIONS_DIR |-> StoragePath] }

Init ==
    /\ env \in PipelineEnvValues
    /\ now = 1
    /\ ticks = 0
    /\ files \in LeftoverCaches
    /\ dirs = IF files[Join(CacheDirName, "img")].exists THEN {CacheDirName} ELSE {}
    /\ pc = [p \in Procs |-> "idle"]
    /\ loc = [p \in Procs |-> IdleLoc]
    /\ resp = [p \in Procs |-> Reply("none", "")]
    /\ gets = [u \in URLs |-> 0]
    /\ sent = <<>>
    /\ rt = FreshProcess
    /\ docs = [d \in DocPaths |-> NoDoc]
    /\ isos = [d \in VMDirs |-> NoIso]
    /\ hyp = [defined |-> {}, running |-> {}, log |-> <<>>]

Next ==
    \/ \E p \in Procs, req \in CreateRequests : CreateVMHandler_Begin(p, req)
    \/ \E p \in Procs : CreateDirectory_Stat(p)
    \/ \E p \in Procs : CreateDirectory_Mkdir(p)
    \/ \E p \in Procs : CreateVMHandler_SaveJSON(p)
    \/ \E p \in Procs : CreateVMHandler_SaveXML(p)
    \/ \E p \in Procs : CreateVMHandler_SaveCloudInit(p)
    \/ \E p \in Procs : GenerateCloudInitISO(p)
    \/ \E p \in Procs : DownloadCachedFile_Entry(p)
    \/ \E p \in Procs : DownloadCachedFile_Check(p)
    \/ \E p \in Procs : DownloadFile_Create(p)
    \/ \E p \in Procs : DownloadFile_Get(p)
    \/ \E p \in Procs : DownloadFile_Copy(p)
    \/ \E p \in Procs : DownloadFile_Chmod(p)
    \/ \E p \in Procs : CopyFile(p)
    \/ \E p \in Procs : ResizeDisk(p)
    \/ \E p \in Procs : DefineDomain(p)
    \/ \E p \in Procs, req \in DefineRequests : DefineDomainHandler_Begin(p, req)
    \/ \E p \in Procs : DefineDomainHandler_Mkdir(p)

Spec == Init /\ [][Next]_vars

-----------------------------------------------------------------------------
(* handlers: DeleteVMHandler, DeleteDomainHandler behind DomainMiddleware *)

\* a request that names its VM in the URL: chi.URLParam(r, "id")
URLRequest(id) == [body |-> "url", id |-> id]

\* DeleteVMHandler lines 273-275: vmDir := filepath.Join("/data/vm", vmID)
DeleteVMHandler_Begin(p, id) ==
    /\ pc[p] = "idle"
    /\ pc' = [pc EXCEPT ![p] = "x_destroy"]
    /\ loc' = [loc EXCEPT ![p] = [IdleLoc EXCEPT !.op = "delete", !.req = URLRequest(id),
                                               !.vmDir = Join(StoragePath, id)]]
    /\ resp' = [resp EXCEPT ![p] = Reply("pending", "")]
    /\ UNCHANGED <<rt, sent, env, now, ticks, dirs, files, gets, pipeVars>>

\* filesystem.CheckDirectoryExists(path): (false, nil) for an absent path,
\* (false, error) when os.Stat fails otherwise (ioerr) or the path is not a
\* directory, (true, nil) for a directory
CheckDirectoryExists(path, ioerr) ==
    IF ~ioerr /\ StatKind(path) = "absent" THEN [exists |-> FALSE, err |-> "nil"]
    ELSE IF ioerr THEN [exists |-> FALSE, err |-> "stat"]
    ELSE IF StatKind(path) = "file" THEN [exists |-> FALSE, err |-> "notdir"]
    ELSE [exists |-> TRUE, err |-> "nil"]

\* variant: the gate lets the request through whatever the check returned
GateStop_Open(p, code, at, msg, l, next) ==
    /\ pc' = [pc EXCEPT ![p] = next]
    /\ loc' = [loc EXCEPT ![p] = [l EXCEPT !.vmDir = Join(env.DEFINITIONS_DIR, l.req.id)]]
    /\ resp' = [resp EXCEPT ![p] = Reply("pending", "")]

\* DomainMiddleware ends the request itself: JSONErrorResponse and return,
\* next.ServeHTTP is not called
GateStop(p, code, at, msg, l, next) ==
    /\ pc' = [pc EXCEPT ![p] = "done"]
    /\ loc' = [loc EXCEPT ![p] = [l EXCEPT !.failedAt = at]]
    /\ resp' = [resp EXCEPT ![p] = Reply(code, msg)]

\* DomainMiddleware in front of a per-VM handler: the URL must carry an ID,
\* DEFINITIONS_DIR must be set and the VM directory must exist and be a
\* directory; then the handler (next) runs with vmID and vmDir in the request
\* context
DomainMiddleware(p, req, op, next) ==
    /\ pc[p] = "idle"
    /\ \E ioerr \in BOOLEAN :
         LET l == [IdleLoc EXCEPT !.op = op, !.req = req]
             vmDir == Join(env.DEFINITIONS_DIR, req.id)
             chk == CheckDirectoryExists(vmDir, ioerr)
         IN IF req.id = ""
            THEN GateStop(p, "400", "m_id", "VM ID missing from URL", l, next)
            ELSE IF env.DEFINITIONS_DIR = <<>>
            THEN GateStop(p, "500", "m_env", "DEFINITIONS_DIR environment variable not set", l, next)
            ELSE IF chk.err = "notdir"
            THEN GateStop(p, "409", "m_dir", "Path exists but is not a directory", l, next)
            ELSE IF chk.err # "nil"
            THEN GateStop(p, "500", "m_dir", "Failed to verify VM directory", l, next)
            ELSE IF ~chk.exists
            THEN GateStop(p, "404", "m_dir", "VM directory not found", l, next)
            ELSE /\ pc' = [pc EXCEPT ![p] = next]
                 /\ loc' = [loc EXCEPT ![p] = [l EXCEPT !.vmDir = vmDir]]
                 /\ resp' = [resp EXCEPT ![p] = Reply("pending", "")]
    /\ UNCHANGED <<rt, sent, env, now, ticks, dirs, files, gets, pipeVars>>

\* DomainMiddleware in front of DeleteDomainHandler
DomainMiddleware_Delete(p, id) == DomainMiddleware(p, URLRequest(id), "deldom", "x_destroy")

\* a virsh command as the hypervisor log records it
Virsh(cmd, arg, p) == [cmd |-> cmd, arg |-> arg, by |-> p]

\* variant: the directory is removed right after the power-off
AfterDestroy_RemoveFirst(l) == "x_rmstat"

\* the statement after the destroy attempt, whatever it returned: undefine
AfterDestroy(l) == "x_undefine"

\* libvirt.DestroyDomain(vmID): virsh destroy; fails when the domain is not
\* running; the handler only logs the error and goes on
DestroyDomain(p) ==
    /\ pc[p] = "x_destroy"
    /\ LET id == loc[p].req.id IN
       \E ok \in BOOLEAN :
         /\ hyp' = [hyp EXCEPT !.log = Append(@, Virsh("destroy", id, p)),
                               !.running = IF ok THEN @ \ {id} ELSE @]
         /\ loc' = [loc EXCEPT ![p].steps =
                       IF ok /\ id \in hyp.running THEN Append(@, "destroy") ELSE @]
    /\ pc' = [pc EXCEPT ![p] = AfterDestroy(loc[p])]
    /\ UNCHANGED <<rt, sent, env, now, ticks, dirs, files, gets, docs, isos, resp>>

\* variant: a failing undefine is only logged, like a failing destroy
UndefineFailed_Ignored(p, l) ==
    /\ pc' = [pc EXCEPT ![p] = "x_rmstat"]
    /\ loc' = [loc EXCEPT ![p] = l]
    /\ UNCHANGED resp

\* where a Delete handler goes when virsh undefine returned an error
UndefineFailed(p, l) == CreateFail(p, "x_undefine", "Failed to undefine VM", l)

\* variant: virsh undefine returns success and the definition stays
UndefineDomain_Keep(p) ==
    /\ pc[p] = "x_undefine"
    /\ LET id == loc[p].req.id
           issued == Append(hyp.log, Virsh("undefine", id, p))
       IN \E ok \in BOOLEAN :
            IF ok /\ id \in hyp.defined
            THEN /\ hyp' = [hyp EXCEPT !.log = issued]
                 /\ pc' = [pc EXCEPT ![p] = "x_rmstat"]
                 /\ loc' = [loc EXCEPT ![p].steps = Append(@, "undefine")]
                 /\ UNCHANGED resp
            ELSE /\ hyp' = [hyp EXCEPT !.log = issued]
                 /\ UndefineFailed(p, loc[p])
    /\ UNCHANGED <<rt, sent, env, now, ticks, dirs, files, gets, docs, isos>>

\* libvirt.UndefineDomain(vmID): virsh undefine; fails when the hypervisor
\* holds no definition of that name
UndefineDomain(p) ==
    /\ pc[p] = "x_undefine"
    /\ LET id == loc[p].req.id
           issued == Append(hyp.log, Virsh("undefine", id, p))
       IN \E ok \in BOOLEAN :
            IF ok /\ id \in hyp.defined
            THEN /\ hyp' = [hyp EXCEPT !.defined = @ \ {id}, !.log = issued]
                 /\ pc' = [pc EXCEPT ![p] = "x_rmstat"]
                 /\ loc' = [loc EXCEPT ![p].steps = Append(@, "undefine")]
                 /\ UNCHANGED resp
            ELSE /\ hyp' = [hyp EXCEPT !.log = issued]
                 /\ UndefineFailed(p, loc[p])
    /\ UNCHANGED <<rt, sent, env, now, ticks, dirs, files, gets, docs, isos>>

\* filesystem.DeleteDirectory: os.Stat(path) reporting "not exist" is an error
DeleteDirectory_Stat(p) ==
    /\ pc[p] = "x_rmstat"
    /\ IF loc[p].vmDir \notin dirs
       THEN CreateFail(p, "x_rmstat", "directory does not exist", loc[p])
       ELSE /\ pc' = [pc EXCEPT ![p] = "x_remove"]
            /\ UNCHANGED <<loc, resp>>
    /\ UNCHANGED <<rt, sent, env, now, ticks, dirs, files, gets, pipeVars>>

\* filesystem.DeleteDirectory: os.RemoveAll(path), then the success reply of
\* the Delete handler
DeleteDirectory_RemoveAll(p) ==
    /\ pc[p] = "x_remove"
    /\ LET dir == loc[p].vmDir IN
       \E ok \in BOOLEAN :
         IF ok
         THEN /\ dirs' = dirs \ {dir}
              /\ docs' = [d \in DOMAIN docs |-> IF Parent(d) = dir THEN NoDoc ELSE docs[d]]
              /\ files' = [f \in DOMAIN files |-> IF Parent(f) = dir THEN NoFile ELSE files[f]]
              /\ isos' = [isos EXCEPT ![dir] = NoIso]
              /\ pc' = [pc EXCEPT ![p] = "done"]
              /\ loc' = [loc EXCEPT ![p].steps = Append(@, "rmdir")]
              /\ resp' = [resp EXCEPT ![p] = Reply("200", "success")]
         ELSE /\ CreateFail(p, "x_remove", "failed to delete directory", loc[p])
              /\ UNCHANGED <<dirs, docs, files, isos>>
    /\ UNCHANGED <<rt, sent, env, now, ticks, gets, hyp>>

-----------------------------------------------------------------------------
(* Define and Delete of the domain routes, requests served concurrently *)

\* net/http serves every request on its own goroutine and the handlers take
\* no lock: the steps of a DefineDomainHandler and of a DeleteDomainHandler
\* (behind DomainMiddleware) interleave freely
NextRace ==
    \/ \E p \in Procs, req \in DefineRequests : DefineDomainHandler_Begin(p, req)
    \/ \E p \in Procs, id \in VMIDs : DomainMiddleware_Delete(p, id)
    \/ \E p \in Procs : DefineDomainHandler_Mkdir(p)
    \/ \E p \in Procs : CreateVMHandler_SaveXML(p)
    \/ \E p \in Procs : DefineDomain(p)
    \/ \E p \in Procs : DestroyDomain(p)
    \/ \E p \in Procs : UndefineDomain(p)
    \/ \E p \in Procs : DeleteDirectory_Stat(p)
    \/ \E p \in Procs : DeleteDirectory_RemoveAll(p)

-----------------------------------------------------------------------------
(* handlers: UpdateVMHandler *)

\* a Create/Update request for VM id with one disk of the given capacity
SizedRequest(id, cap, ci) ==
    [GoodRequest(id, <<"h1", "img">>, ci) EXCEPT
        !.disks = << [id |-> 0, capacity |-> cap, path |-> StoragePath] >>]

UpdateRequests ==
    { SizedRequest("vm1", 5, NoCloudInit),
      SizedRequest("vm1", 10, NoCloudInit),
      SizedRequest("vm1", 20, NoCloudInit),
      SizedRequest("vm1", 20, SomeCloudInit),
      [BaseRequest EXCEPT !.body = "invalid"],
      [BaseRequest EXCEPT !.id = ""],
      [BaseRequest EXCEPT !.disks = <<>>] }

\* UpdateVMHandler lines 210-235: decode, check vm.id, take the first disk
\* (req.VM.Disks[0] on an empty list panics; net/http recovers the panic and
\* closes the connection without a reply)
UpdateVMHandler_Begin(p, req) ==
    /\ pc[p] = "idle"
    /\ LET l == [IdleLoc EXCEPT !.op = "update", !.req = req] IN
       IF req.body # "json"
       THEN /\ pc' = [pc EXCEPT ![p] = "done"]
            /\ loc' = [loc EXCEPT ![p] = l]
            /\ resp' = [resp EXCEPT ![p] = Reply("400", "Invalid JSON")]
       ELSE IF req.id = ""
       THEN /\ pc' = [pc EXCEPT ![p] = "done"]
            /\ loc' = [loc EXCEPT ![p] = l]
            /\ resp' = [resp EXCEPT ![p] = Reply("400", "Missing 'vm.id'")]
       ELSE IF Len(req.disks) = 0
       THEN /\ pc' = [pc EXCEPT ![p] = "done"]
            /\ loc' = [loc EXCEPT ![p] = [l EXCEPT !.failedAt = "u_disks"]]
            /\ resp' = [resp EXCEPT ![p] = Reply("panic", "index out of range")]
       ELSE /\ pc' = [pc EXCEPT ![p] = "c_stat"]
            /\ loc' = [loc EXCEPT ![p] = [l EXCEPT !.vmDir = VMDirOf(req)]]
            /\ resp' = [resp EXCEPT ![p] = Reply("pending", "")]
    /\ UNCHANGED <<rt, sent, env, now, ticks, dirs, files, gets, pipeVars>>

\* filesToRemove of UpdateVMHandler, in the order of the loop
FilesToRemove ==
    <<"server.xml", "server.json", "meta-data", "vendor-data", "user-data", "network-config">>

RECURSIVE RemoveFiles(_, _, _)
\* the loop of lines 243-248 from index i on: filesystem.DeleteFile returns its
\* own error "file does not exist" for a missing file, which is not an
\* os.IsNotExist error, so the loop stops there; an existing file is removed
RemoveFiles(d, dir, i) ==
    IF i > Len(FilesToRemove) THEN [docs |-> d, failed |-> ""]
    ELSE IF ~d[Join(dir, FilesToRemove[i])].exists
         THEN [docs |-> d, failed |-> FilesToRemove[i]]
    ELSE RemoveFiles([d EXCEPT ![Join(dir, FilesToRemove[i])] = NoDoc], dir, i + 1)

RECURSIVE ResizeDisks(_, _, _, _, _)
\* the loop of lines 265-273 from index i on: a disk whose requested capacity
\* is larger than the recorded one is resized; ResizeDisk fails on a missing
\* image
ResizeDisks(f, dir, old, new, i) ==
    IF i > Len(old) THEN [files |-> f, failed |-> FALSE]
    ELSE IF Len(new) >= i /\ new[i].capacity > old[i].capacity
         THEN LET img == Join(dir, DiskFileName(old[i].id)) IN
              IF ~f[img].exists THEN [files |-> f, failed |-> TRUE]
              ELSE ResizeDisks([f EXCEPT ![img].size = new[i].capacity], dir, old, new, i + 1)
    ELSE ResizeDisks(f, dir, old, new, i + 1)

\* the cloud-init saves of lines 294-308: every non-empty content is written
SaveCloudInitFiles(d, dir, req) ==
    [q \in DOMAIN d |->
        IF \E n \in CloudInitNames : q = Join(dir, n) /\ CloudInitFiles(req)[n] # <<>>
        THEN [exists |-> TRUE, text |-> CloudInitFiles(req)[Last(q)]]
        ELSE d[q]]

\* UpdateVMHandler lines 241-316 as a function of the directory contents:
\* remove the existing files, read the old server.json, resize, save the new
\* server.json, server.xml and cloud-init files
UpdateBody(d, f, l) ==
    LET dir == l.vmDir
        json == Join(dir, "server.json")
        rm == RemoveFiles(d, dir, 1)
    IN IF rm.failed # ""
       THEN [docs |-> rm.docs, files |-> f, code |-> "500", at |-> "u_remove",
             msg |-> "Failed to remove file"]
       ELSE IF ~rm.docs[json].exists
       THEN [docs |-> rm.docs, files |-> f, code |-> "500", at |-> "u_read",
             msg |-> "Failed to read old server.json"]
       ELSE LET rs == ResizeDisks(f, dir, rm.docs[json].text[1].disks, l.req.disks, 1) IN
            IF rs.failed
            THEN [docs |-> rm.docs, files |-> rs.files, code |-> "500", at |-> "u_resize",
                  msg |-> "Failed to resize disk"]
            ELSE [docs |-> SaveCloudInitFiles(
                              [rm.docs EXCEPT ![json] = [exists |-> TRUE, text |-> <<l.req>>],
                                              ![Join(dir, "server.xml")] =
                                                  [exists |-> TRUE, text |-> l.req.xmlConfig]],
                              dir, l.req),
                  files |-> rs.files, code |-> "200", at |-> "none",
                  msg |-> "VM configuration updated"]

\* variant: the handler redefines the domain from the new XML before replying
UpdateReply_Redefine(p, out, l) ==
    /\ pc' = [pc EXCEPT ![p] = "done"]
    /\ loc' = [loc EXCEPT ![p] = [l EXCEPT !.failedAt = out.at]]
    /\ resp' = [resp EXCEPT ![p] = Reply(out.code, out.msg)]
    /\ hyp' = [hyp EXCEPT !.log = Append(@, Virsh("define", l.req.id, p))]

\* how UpdateVMHandler ends: the reply; no libvirt call anywhere in the handler
UpdateReply(p, out, l) ==
    /\ pc' = [pc EXCEPT ![p] = "done"]
    /\ loc' = [loc EXCEPT ![p] = [l EXCEPT !.failedAt = out.at]]
    /\ resp' = [resp EXCEPT ![p] = Reply(out.code, out.msg)]
    /\ UNCHANGED hyp

\* UpdateVMHandler lines 241-316, after CreateDirectory returned nil
UpdateVMHandler_Body(p) ==
    /\ pc[p] = "u_body"
    /\ LET out == UpdateBody(docs, files, loc[p]) IN
         /\ docs' = out.docs
         /\ files' = out.files
         /\ UpdateReply(p, out, loc[p])
    /\ UNCHANGED <<rt, sent, env, now, ticks, dirs, gets, isos>>

-----------------------------------------------------------------------------
(* The life of a VM: Create, Define, Update and Delete requests issued one
   after the other, starting from what earlier requests left behind *)

\* the request an earlier Create for vm1 was made with
EarlierRequest(root) ==
    [BaseRequest EXCEPT !.disks = << [id |-> 0, capacity |-> 10, path |-> root] >>]

\* the image an earlier Create downloaded and resized
EarlierImage ==
    [exists |-> TRUE, data |-> Body(<<"h1", "img">>), mtime |-> 0,
     mode |-> RequestedMode, size |-> 10]

\* what a successful Create of EarlierRequest(root) left: directory, request
\* snapshot, XML, placeholder cloud-init image, disk image, defined domain
CreatedVM(root, running) ==
    LET dir == Join(root, "vm1") IN
    [dirs |-> {root, dir},
     docs |-> [d \in DocPaths |->
                 IF d = Join(dir, "server.json")
                 THEN [exists |-> TRUE, text |-> <<EarlierRequest(root)>>]
                 ELSE IF d = Join(dir, "server.xml")
                 THEN [exists |-> TRUE, text |-> EarlierRequest(root).xmlConfig]
                 ELSE NoDoc],
     isos |-> [v \in VMDirs |-> IF v = dir THEN [exists |-> TRUE, inputs |-> {"/dev/null"}]
                                ELSE NoIso],
     files |-> [f \in AllPaths |-> IF f = Join(dir, "0.img") THEN EarlierImage ELSE NoFile],
     hyp |-> [defined |-> {"vm1"}, running |-> running, log |-> <<>>]]

\* what a Create of EarlierRequest(root) left that failed at server.xml
OrphanVM(root) ==
    LET dir == Join(root, "vm1") IN
    [dirs |-> {root, dir},
     docs |-> [d \in DocPaths |->
                 IF d = Join(dir, "server.json")
                 THEN [exists |-> TRUE, text |-> <<EarlierRequest(root)>>]
                 ELSE NoDoc],
     isos |-> [v \in VMDirs |-> NoIso],
     files |-> [f \in AllPaths |-> NoFile],
     hyp |-> [defined |-> {}, running |-> {}, log |-> <<>>]]

NoVM ==
    [dirs |-> {},
     docs |-> [d \in DocPaths |-> NoDoc],
     isos |-> [v \in VMDirs |-> NoIso],
     files |-> [f \in AllPaths |-> NoFile],
     hyp |-> [defined |-> {}, running |-> {}, log |-> <<>>]]

VMHistories ==
    { NoVM,
      CreatedVM(StoragePath, {}),
      CreatedVM(StoragePath, {"vm1"}),
      CreatedVM(OtherStoragePath, {}),
      OrphanVM(StoragePath) }

VMEnvValues ==
    { [CACHE_DIR |-> <<>>, CACHE_SECONDS |-> <<>>, DEFINITIONS_DIR |-> StoragePath],
      [CACHE_DIR |-> <<>>, CACHE_SECONDS |-> <<>>, DEFINITIONS_DIR |-> <<>>],
      [CACHE_DIR |-> CacheDirName, CACHE_SECONDS |-> <<"2">>,
       DEFINITIONS_DIR |-> StoragePath] }

\* the Create requests of this specification
VMCreateRequests ==
    { SizedRequest("vm1", 10, NoCloudInit),
      SizedRequest("vm1", 10, SomeCloudInit),
      EarlierRequest(OtherStoragePath),
      [BaseRequest EXCEPT !.xmlConfig = <<>>] }

\* no other request is being served: the caller serialises its requests
Quiet(p) == \A q \in Procs \ {p} : pc[q] \in {"idle", "done"}

InitVM ==
    /\ env \in VMEnvValues
    /\ now = 1
    /\ ticks = 0
    /\ \E h \in VMHistories :
         /\ dirs = h.dirs
         /\ docs = h.docs
         /\ isos = h.isos
         /\ files = h.files
         /\ hyp = h.hyp
    /\ pc = [p \in Procs |-> "idle"]
    /\ loc = [p \in Procs |-> IdleLoc]
    /\ resp = [p \in Procs |-> Reply("none", "")]
    /\ gets = [u \in URLs |-> 0]
    /\ sent = <<>>
    /\ rt = FreshProcess

NextVM ==
    \/ \E p \in Procs, req \in VMCreateRequests : Quiet(p) /\ CreateVMHandler_Begin(p, req)
    \/ \E p \in Procs, req \in DefineRequests : Quiet(p) /\ DefineDomainHandler_Begin(p, req)
    \/ \E p \in Procs, req \in UpdateRequests : Quiet(p) /\ UpdateVMHandler_Begin(p, req)
    \/ \E p \in Procs, id \in VMIDs : Quiet(p) /\ DeleteVMHandler_Begin(p, id)
    \/ \E p \in Procs, id \in VMIDs : Quiet(p) /\ DomainMiddleware_Delete(p, id)
    \/ \E p \in Procs : CreateDirectory_Stat(p)
    \/ \E p \in Procs : CreateDirectory_Mkdir(p)
    \/ \E p \in Procs : CreateDirectory_All(p)
    \/ \E p \in Procs : CreateVMHandler_SaveJSON(p)
    \/ \E p \in Procs : CreateVMHandler_SaveXML(p)
    \/ \E p \in Procs : CreateVMHandler_SaveCloudInit(p)
    \/ \E p \in Procs : GenerateCloudInitISO(p)
    \/ \E p \in Procs : DownloadCachedFile_Entry(p)
    \/ \E p \in Procs : DownloadCachedFile_Check(p)
    \/ \E p \in Procs : DownloadFile_Create(p)
    \/ \E p \in Procs : DownloadFile_Get(p)
    \/ \E p \in Procs : DownloadFile_Copy(p)
    \/ \E p \in Procs : DownloadFile_Chmod(p)
    \/ \E p \in Procs : CopyFile(p)
    \/ \E p \in Procs : ResizeDisk(p)
    \/ \E p \in Procs : DefineDomain(p)
    \/ \E p \in Procs : DefineDomainHandler_Mkdir(p)
    \/ \E p \in Procs : UpdateVMHandler_Body(p)
    \/ \E p \in Procs : DestroyDomain(p)
    \/ \E p \in Procs : UndefineDomain(p)
    \/ \E p \in Procs : DeleteDirectory_Stat(p)
    \/ \E p \in Procs : DeleteDirectory_RemoveAll(p)

SpecVM == InitVM /\ [][NextVM]_vars

SpecRace == InitVM /\ [][NextRace]_vars

-----------------------------------------------------------------------------
(* Per-VM operations: lifecycle actions, status, cloud-init image *)

\* the lifecycle handlers of both families (StartVMHandler and
\* StartDomainHandler are "Start", and so on)
LifecycleHandlers == {"Start", "Reboot", "Reset", "Shutdown", "Stop"}

\* the libvirt call in the body of each lifecycle handler, as the virsh
\* subcommand it runs: StartDomain, RebootDomain, ResetDomain, ShutdownDomain,
\* DestroyDomain
HandlerCommand(h) ==
    CASE h = "Start" -> "start"
      [] h = "Reboot" -> "reboot"
      [] h = "Reset" -> "reset"
      [] h = "Shutdown" -> "shutdown"
      [] h = "Stop" -> "destroy"

\* the paths RegisterRoutes registers under /vm/{id} for lifecycle actions
RoutePaths == {"start", "reboot", "reset", "shutdowm", "stop"}

\* RegisterRoutes: the handler each registered path is bound to
RouteHandler(path) ==
    CASE path = "start" -> "Start"
      [] path = "reboot" -> "Reboot"
      [] path = "reset" -> "Reboot"
      [] path = "shutdowm" -> "Shutdown"
      [] path = "stop" -> "Stop"

\* the operations the DomainMiddleware family serves besides delete
DomainActions == {"start", "reboot", "reset", "shutdown", "stop", "status", "cloudinit"}

\* the handler of each operation of the DomainMiddleware family
DomainHandler(action) ==
    CASE action = "start" -> "Start"
      [] action = "reboot" -> "Reboot"
      [] action = "reset" -> "Reset"
      [] action = "shutdown" -> "Shutdown"
      [] action = "stop" -> "Stop"
      [] action = "status" -> "Retrieve"
      [] action = "cloudinit" -> "CloudInit"

\* where a handler starts
HandlerEntry(h) ==
    IF h \in LifecycleHandlers THEN "l_cmd"
    ELSE IF h = "Retrieve" THEN "s_info" ELSE "i_body"

\* a request on /.../{id}/<path>, with the remoteState query flag and, for the
\* cloud-init operation, the body
OpRequest(id, path, remote, body, ci) ==
    [body |-> body, id |-> id, path |-> path, remoteState |-> remote, cloudInit |-> ci]

\* the cloud-init documents a request supplies (non-empty content)
SuppliedNames(req) == { n \in CloudInitNames : CloudInitFiles(req)[n] # <<>> }

\* RegisterRoutes (POST /vm/{id}/<path>) in front of the *VMHandler family:
\* chi answers 404 for a path no route matches; the handlers read the ID with
\* chi.URLParam, nothing checks the VM directory
VMRouter(p, req) ==
    /\ pc[p] = "idle"
    /\ LET l == [IdleLoc EXCEPT !.op = "vm", !.req = req] IN
       IF req.path \notin RoutePaths
       THEN /\ pc' = [pc EXCEPT ![p] = "done"]
            /\ loc' = [loc EXCEPT ![p] = [l EXCEPT !.failedAt = "route"]]
            /\ resp' = [resp EXCEPT ![p] = Reply("404", "404 page not found")]
       ELSE /\ pc' = [pc EXCEPT ![p] = "l_cmd"]
            /\ loc' = [loc EXCEPT ![p] = [l EXCEPT !.handler = RouteHandler(req.path)]]
            /\ resp' = [resp EXCEPT ![p] = Reply("pending", "")]
    /\ UNCHANGED <<rt, sent, env, now, ticks, dirs, files, gets, pipeVars>>

\* DomainMiddleware in front of the *DomainHandler family
DomainMiddleware_Op(p, req) ==
    DomainMiddleware(p, req, "domain", HandlerEntry(DomainHandler(req.path)))

\* whether the hypervisor accepts the command for this domain
CommandApplies(cmd, id) ==
    IF cmd = "start" THEN id \in hyp.defined /\ id \notin hyp.running
    ELSE id \in hyp.running

\* the running domains after a command that succeeded
RunningAfter(cmd, id) ==
    CASE cmd = "start" -> hyp.running \cup {id}
      [] cmd \in {"destroy", "shutdown"} -> hyp.running \ {id}
      [] OTHER -> hyp.running

\* variant: a failed command is reported to the caller
LifecycleReply_Surfaced(success) ==
    IF success THEN Reply("200", "success") ELSE Reply("500", "command failed")

\* the reply of every lifecycle handler: the error of the libvirt call is
\* logged (log.Printf), then JSONResponse(status: success, 200)
LifecycleReply(success) == Reply("200", "success")

\* the handler a request reached: bound by the router, or by the routes of
\* the DomainMiddleware family
HandlerOf(l) ==
    IF l.op = "vm" THEN l.handler ELSE DomainHandler(l.req.path)

\* StartVMHandler .. StopVMHandler and StartDomainHandler .. StopDomainHandler:
\* one libvirt call, its error only logged, then the success reply
LifecycleCommand(p) ==
    /\ pc[p] = "l_cmd"
    /\ LET id == loc[p].req.id
           cmd == HandlerCommand(HandlerOf(loc[p]))
       IN \E ok \in BOOLEAN :
            LET success == ok /\ CommandApplies(cmd, id) IN
            /\ hyp' = [hyp EXCEPT !.log = Append(@, Virsh(cmd, id, p)),
                                  !.running = IF success THEN RunningAfter(cmd, id) ELSE @]
            /\ loc' = [loc EXCEPT ![p].steps = IF success THEN Append(@, cmd) ELSE @,
                                  ![p].failedAt = IF success THEN "none" ELSE "logged"]
            /\ resp' = [resp EXCEPT ![p] = LifecycleReply(success)]
    /\ pc' = [pc EXCEPT ![p] = "done"]
    /\ UNCHANGED <<rt, sent, env, now, ticks, dirs, files, gets, docs, isos>>

\* the output of virsh dominfo as text: a sequence of lines, a line a
\* sequence of these pieces ("State" and "Name" are field names, " " is white
\* space, "running" a value)
Pieces == {"State", ":", " ", "running"}

MaxLineLen == 4

MaxHeadLen == 2

Lines == UNION { [1..n -> Pieces] : n \in 0..MaxLineLen }

\* the lines that stand before the last one
HeadLines == UNION { [1..n -> Pieces] : n \in 0..MaxHeadLen }

\* every text of at most two such lines
DomInfoOutputs ==
    { <<>> } \cup { <<l>> : l \in Lines } \cup { <<h, l>> : h \in HeadLines, l \in Lines }

\* what virsh dominfo prints for a domain, and some outputs that are not what
\* it should print
DomInfoSamples ==
    { << <<"Name", ":", " ", "vm1">>, <<"State", ":", " ", " ", "running">> >>,
      << <<"Name", ":", " ", "vm1">>, <<"State", ":", " ", "shut", " ", "off", " ">> >>,
      << <<"State", ":">>, <<"State", ":", "running">> >>,
      << <<"Name", ":", " ", "vm1">>, <<" ", "State", ":", " ", "running">> >>,
      << <<"Name", ":", " ", "vm1">> >>,
      <<>> }

\* strings.HasPrefix(line, "State:")
HasStatePrefix(line) == Len(line) >= 2 /\ line[1] = "State" /\ line[2] = ":"

\* strings.SplitN(line, ":", 2): the line cut at its first colon, or the
\* line alone when it has none
SplitN2(line) ==
    LET colons == { i \in DOMAIN line : line[i] = ":" } IN
    IF colons = {} THEN <<line>>
    ELSE LET i == CHOOSE i \in colons : \A j \in colons : i <= j
         IN <<SubSeq(line, 1, i - 1), SubSeq(line, i + 1, Len(line))>>

RECURSIVE TrimSpace(_)
\* strings.TrimSpace: leading and trailing white space removed
TrimSpace(str) ==
    IF str = <<>> THEN <<>>
    ELSE IF Head(str) = " " THEN TrimSpace(Tail(str))
    ELSE IF str[Len(str)] = " " THEN TrimSpace(SubSeq(str, 1, Len(str) - 1))
    ELSE str

RECURSIVE ScanStatus(_, _)
\* the scanner loop of ParseDomainStatus from line i on
ScanStatus(text, i) ==
    IF i > Len(text) THEN [status |-> <<>>, err |-> "status not found in domain info"]
    ELSE IF HasStatePrefix(text[i])
    THEN LET parts == SplitN2(text[i]) IN
         IF Len(parts) # 2 THEN ScanStatus(text, i + 1)
         ELSE [status |-> TrimSpace(parts[2]), err |-> "nil"]
    ELSE ScanStatus(text, i + 1)

\* variant: a response without a State field is reported as a stopped domain
ParseDomainStatus_Default(dominfo) ==
    IF ScanStatus(dominfo, 1).err = "nil" THEN ScanStatus(dominfo, 1)
    ELSE [status |-> <<"shut", "off">>, err |-> "nil"]

\* helpers.ParseDomainStatus(dominfo)
ParseDomainStatus(dominfo) == ScanStatus(dominfo, 1)

\* the VMStatusResponse under construction or sent
StatusResponse(id, status, remote) == [id |-> id, status |-> status, remoteState |-> remote]

\* RetrieveDomainHandler lines 242-266: virsh dominfo, ParseDomainStatus;
\* either failing ends the request with 500; without remoteState=true the
\* response is sent here
RetrieveDomainHandler_Info(p) ==
    /\ pc[p] = "s_info"
    /\ LET id == loc[p].req.id IN
       /\ hyp' = [hyp EXCEPT !.log = Append(@, Virsh("dominfo", id, p))]
       /\ \E ok \in BOOLEAN, dominfo \in DomInfoSamples :
            IF ~ok \/ id \notin hyp.defined
            THEN CreateFail(p, "s_info", "Failed to get domain info", loc[p])
            ELSE LET r == ParseDomainStatus(dominfo)
                     l == [loc[p] EXCEPT !.out = dominfo]
                 IN IF r.err # "nil"
                    THEN CreateFail(p, "s_parse", "Failed to parse domain status", l)
                    ELSE /\ loc' = [loc EXCEPT ![p] = [l EXCEPT !.steps = Append(@, "dominfo")]]
                         /\ IF loc[p].req.remoteState
                            THEN /\ pc' = [pc EXCEPT ![p] = "s_ping"]
                                 /\ resp' = [resp EXCEPT ![p] =
                                      Reply("pending", StatusResponse(id, r.status, "omitted"))]
                            ELSE /\ pc' = [pc EXCEPT ![p] = "done"]
                                 /\ resp' = [resp EXCEPT ![p] =
                                      Reply("200", StatusResponse(id, r.status, "omitted"))]
    /\ UNCHANGED <<rt, sent, env, now, ticks, dirs, files, gets, docs, isos>>

\* the guest-agent queries of lines 270-275, in the order they are made
GuestQueries ==
    <<"guest-get-host-name", "guest-get-osinfo", "guest-get-fsinfo",
      "guest-network-get-interfaces", "guest-get-time", "guest-get-users">>

\* variant: the queries are made whatever the ping returned
PingGate_Open(alive) == TRUE

\* RetrieveDomainHandler line 269: the queries are made if GuestPing returned
\* no error
PingGate(alive) == alive

\* RetrieveDomainHandler line 269: qemu.GuestPing; when it fails the handler
\* logs it and replies without remoteState
RetrieveDomainHandler_Ping(p) ==
    /\ pc[p] = "s_ping"
    /\ LET id == loc[p].req.id IN
       /\ hyp' = [hyp EXCEPT !.log = Append(@, Virsh("guest-ping", id, p))]
       /\ \E ok \in BOOLEAN :
            LET alive == ok /\ id \in hyp.running IN
            /\ loc' = [loc EXCEPT ![p].steps = IF alive THEN Append(@, "guest-ping") ELSE @]
            /\ IF PingGate(alive)
               THEN /\ pc' = [pc EXCEPT ![p] = "s_remote"]
                    /\ UNCHANGED resp
               ELSE /\ pc' = [pc EXCEPT ![p] = "done"]
                    /\ resp' = [resp EXCEPT ![p] = Reply("200", resp[p].msg)]
    /\ UNCHANGED <<rt, sent, env, now, ticks, dirs, files, gets, docs, isos>>

\* the log after the six queries were run for domain id by p
QueriesIssued(log, id, p) ==
    log \o [i \in DOMAIN GuestQueries |-> Virsh(GuestQueries[i], id, p)]

\* RetrieveDomainHandler lines 270-283: the six queries, each error dropped
\* (hostname, _ := ...), so a failed query leaves the zero value in
\* RemoteInfo; then the 200 reply
RetrieveDomainHandler_Remote(p) ==
    /\ pc[p] = "s_remote"
    /\ LET id == loc[p].req.id IN
       /\ hyp' = [hyp EXCEPT !.log = QueriesIssued(@, id, p)]
       /\ \E failed \in SUBSET Range(GuestQueries) :
            /\ resp' = [resp EXCEPT ![p] =
                 Reply("200", [resp[p].msg EXCEPT !.remoteState =
                    [q \in Range(GuestQueries) |-> IF q \in failed THEN "zero" ELSE "data"]])]
            /\ loc' = [loc EXCEPT ![p].steps = Append(@, "remote")]
    /\ pc' = [pc EXCEPT ![p] = "done"]
    /\ UNCHANGED <<rt, sent, env, now, ticks, dirs, files, gets, docs, isos>>

\* GenerateCloudInitISO of part_014, lines 28-46: the candidates that
\* exist, or /dev/null in their place when none does
ValidFiles(d, dir) ==
    LET valid == { f \in IsoCandidates : d[Join(dir, f)].exists } IN
    IF valid = {} THEN {"/dev/null"} ELSE valid

\* GenerateCloudInitISO of internal/helpers/image.go, lines 27-36: always
\* user-data, meta-data and network-data
FixedInputs == {"user-data", "meta-data", "network-data"}

\* the inputs genisoimage does not find; it fails when there is one
MissingInputs(d, dir, inputs) ==
    { f \in inputs \ {"/dev/null"} : ~d[Join(dir, f)].exists }

\* CloudInitHandler: an empty body is refused; the non-empty documents are
\* saved and the cloud-init image is generated from the candidates present
CloudInitHandler_With(p, fixed) ==
    /\ pc[p] = "i_body"
    /\ LET dir == loc[p].vmDir
           req == loc[p].req
       IN IF req.body = "empty"
          THEN /\ pc' = [pc EXCEPT ![p] = "done"]
               /\ loc' = [loc EXCEPT ![p].failedAt = "i_body"]
               /\ resp' = [resp EXCEPT ![p] = Reply("400", "Empty request body")]
               /\ UNCHANGED <<docs, isos>>
          ELSE \E failing \in {"none", "save", "iso"} :
                 LET saved == SaveCloudInitFiles(docs, dir, req)
                     inputs == IF fixed THEN FixedInputs ELSE ValidFiles(saved, dir)
                 IN IF failing = "save" /\ SuppliedNames(req) # {}
                    THEN /\ CreateFail(p, "i_save", "Failed to save file", loc[p])
                         /\ UNCHANGED <<docs, isos>>
                    ELSE IF failing = "iso" \/ MissingInputs(saved, dir, inputs) # {}
                    THEN /\ CreateFail(p, "i_iso", "Failed to create cloud-init ISO",
                                       [loc[p] EXCEPT !.out = inputs])
                         /\ docs' = saved
                         /\ UNCHANGED isos
                    ELSE /\ docs' = saved
                         /\ isos' = [isos EXCEPT ![dir] = [exists |-> TRUE, inputs |-> inputs]]
                         /\ pc' = [pc EXCEPT ![p] = "done"]
                         /\ loc' = [loc EXCEPT ![p].steps = Append(@, "iso"),
                                               ![p].out = inputs]
                         /\ resp' = [resp EXCEPT ![p] = Reply("201", "cloud-init drive generated")]
    /\ UNCHANGED <<rt, sent, env, now, ticks, dirs, files, gets, hyp>>

\* CloudInitHandler with GenerateCloudInitISO of part_014
CloudInitHandler(p) == CloudInitHandler_With(p, FALSE)

\* CloudInitHandler with GenerateCloudInitISO of internal/helpers/image.go
CloudInitHandler_Fixed(p) == CloudInitHandler_With(p, TRUE)

\* the event type of each lifecycle transition (README, Event Types)
EventType(step) ==
    CASE step = "define" -> "domain.defined"
      [] step = "start" -> "domain.started"
      [] step = "destroy" -> "domain.stopped"
      [] step = "shutdown" -> "domain.shutdown"
      [] step \in {"reboot", "reset"} -> "domain.rebooted"
      [] step = "undefine" -> "domain.undefined"

\* events.SendWebhook(id, eventType, ...): an error when WEBHOOK_URL or
\* NODE_ID is not set, else the payload is posted; no handler calls it
SendWebhook(id, eventType) ==
    IF env.WEBHOOK_URL = <<>> \/ env.NODE_ID = <<>>
    THEN [sent |-> sent, err |-> "environment variable not set"]
    ELSE [sent |-> Append(sent, [node_id |-> env.NODE_ID, id |-> id, type |-> eventType]),
          err |-> "nil"]

\* what an earlier run left when the path of vm1 is a regular file
FileAtVMDir ==
    [NoVM EXCEPT !.dirs = {StoragePath},
                 !.files = [f \in AllPaths |->
                    IF f = Join(StoragePath, "vm1")
                    THEN [exists |-> TRUE, data |-> <<>>, mtime |-> 0,
                          mode |-> RequestedMode, size |-> 0]
                    ELSE NoFile]]

OpsHistories ==
    { NoVM, FileAtVMDir, OrphanVM(StoragePath),
      CreatedVM(StoragePath, {}), CreatedVM(StoragePath, {"vm1"}) }

\* the environments of this specification: DEFINITIONS_DIR set or not, the
\* webhook endpoint configured or not
OpsEnvValues ==
    { [CACHE_DIR |-> <<>>, CACHE_SECONDS |-> <<>>, DEFINITIONS_DIR |-> d,
       WEBHOOK_URL |-> w, NODE_ID |-> n] :
        d \in {StoragePath, <<>>}, w \in {<<"hook">>, <<>>}, n \in {<<"NODE_1">>} }

\* the requests of this specification
VMOpRequests ==
    { OpRequest("vm1", path, FALSE, "url", NoCloudInit) : path \in RoutePaths \cup {"shutdown"} }

DomainOpRequests ==
    { OpRequest(id, a, FALSE, "url", NoCloudInit) :
        id \in {"vm1", "vm2"}, a \in DomainActions \ {"cloudinit"} }
    \cup { OpRequest("vm1", "status", TRUE, "url", NoCloudInit),
           OpRequest("", "start", FALSE, "url", NoCloudInit),
           OpRequest("vm1", "cloudinit", FALSE, "empty", NoCloudInit) }
    \cup { OpRequest("vm1", "cloudinit", FALSE, "json", ci) : ci \in {NoCloudInit, SomeCloudInit} }

InitOps ==
    /\ env \in OpsEnvValues
    /\ now = 1
    /\ ticks = 0
    /\ \E h \in OpsHistories :
         /\ dirs = h.dirs
         /\ docs = h.docs
         /\ isos = h.isos
         /\ files = h.files
         /\ hyp = h.hyp
    /\ pc = [p \in Procs |-> "idle"]
    /\ loc = [p \in Procs |-> IdleLoc]
    /\ resp = [p \in Procs |-> Reply("none", "")]
    /\ gets = [u \in URLs |-> 0]
    /\ sent = <<>>
    /\ rt = FreshProcess

NextOps ==
    \/ \E p \in Procs, req \in VMOpRequests : Quiet(p) /\ VMRouter(p, req)
    \/ \E p \in Procs, req \in DomainOpRequests : Quiet(p) /\ DomainMiddleware_Op(p, req)
    \/ \E p \in Procs, id \in VMIDs : Quiet(p) /\ DomainMiddleware_Delete(p, id)
    \/ \E p \in Procs : LifecycleCommand(p)
    \/ \E p \in Procs : RetrieveDomainHandler_Info(p)
    \/ \E p \in Procs : RetrieveDomainHandler_Ping(p)
    \/ \E p \in Procs : RetrieveDomainHandler_Remote(p)
    \/ \E p \in Procs : CloudInitHandler(p)
    \/ \E p \in Procs : CloudInitHandler_Fixed(p)
    \/ \E p \in Procs : DestroyDomain(p)
    \/ \E p \in Procs : UndefineDomain(p)
    \/ \E p \in Procs : DeleteDirectory_Stat(p)
    \/ \E p \in Procs : DeleteDirectory_RemoveAll(p)

SpecOps == InitOps /\ [][NextOps]_vars

-----------------------------------------------------------------------------
(* The library on its own: filesystem.CreateDirectory, cmdutil.Execute,
   helpers.ParseDomainStatus, the guest-agent envelope of ResetPasswordHandler *)

\* p can make a call and no other call is made in this run
Alone(p) == pc[p] = "idle" /\ \A q \in Procs \ {p} : pc[q] = "idle"

\* p can make a call, and the calls made before it have returned and were
\* directory calls
AfterDirectoryCalls(p) ==
    /\ pc[p] = "idle"
    /\ \A q \in Procs \ {p} :
        pc[q] = "idle" \/ (pc[q] = "done" /\ loc[q].op \in {"mkdir", "mkdirall"})

\* a direct call of filesystem.CreateDirectory(path, 0755), the one that
\* looks at the path first (CreateDirectory_Stat, CreateDirectory_Mkdir)
CreateDirectory_Begin(p, path) ==
    /\ pc[p] = "idle"
    /\ pc' = [pc EXCEPT ![p] = "c_stat"]
    /\ loc' = [loc EXCEPT ![p] = [IdleLoc EXCEPT !.op = "mkdir", !.vmDir = path]]
    /\ resp' = [resp EXCEPT ![p] = Reply("pending", "")]
    /\ UNCHANGED <<rt, sent, env, now, ticks, dirs, files, gets, pipeVars>>

\* that call returns nil
CreateDirectory_Return(p) ==
    /\ pc[p] = "ret"
    /\ pc' = [pc EXCEPT ![p] = "done"]
    /\ resp' = [resp EXCEPT ![p] = Reply("nil", "")]
    /\ UNCHANGED <<rt, sent, env, now, ticks, dirs, files, gets, pipeVars, loc>>

\* filesystem.CreateDirectory(path, perm) of directory.go lines 10-12:
\* return os.MkdirAll(path, perm)
CreateDirectory_MkdirAll(p, path) ==
    /\ pc[p] = "idle"
    /\ \E ok \in BOOLEAN :
         LET r == MkdirAll(path, ok) IN
         /\ dirs' = r.dirs
         /\ resp' = [resp EXCEPT ![p] = Reply(IF r.err = "nil" THEN "nil" ELSE "error", r.err)]
         /\ loc' = [loc EXCEPT ![p] = [IdleLoc EXCEPT !.op = "mkdirall", !.vmDir = path,
                       !.steps = IF r.dirs # dirs THEN <<"mkdir">> ELSE <<>>]]
    /\ pc' = [pc EXCEPT ![p] = "done"]
    /\ UNCHANGED <<rt, sent, env, now, ticks, files, gets, pipeVars>>

\* a direct call of helpers.ParseDomainStatus(dominfo); what it returns
ParseDomainStatus_Call(p, dominfo) ==
    /\ pc[p] = "idle"
    /\ LET r == ParseDomainStatus(dominfo) IN
       /\ resp' = [resp EXCEPT ![p] = Reply(IF r.err = "nil" THEN "nil" ELSE "error", r.status)]
       /\ loc' = [loc EXCEPT ![p] = [IdleLoc EXCEPT !.op = "parse", !.out = dominfo]]
    /\ pc' = [pc EXCEPT ![p] = "done"]
    /\ UNCHANGED <<rt, sent, env, now, ticks, dirs, files, gets, pipeVars>>

\* what the external command does once started: it never ends (hangs), or
\* it ends with an exit status and what it wrote to stdout and stderr
CommandOutcomes ==
    [hangs : {FALSE}, exit : {0, 1, 2}, stdout : {<<>>, <<"out">>}, stderr : {<<>>, <<"err">>}]
    \cup [hangs : {TRUE}, exit : {0}, stdout : {<<>>}, stderr : {<<>>}]

\* variant: what the command printed is returned with the error
ExecuteReturn_KeepStdout(o) ==
    IF o.exit # 0
    THEN [out |-> o.stdout, failed |-> TRUE, stderr |-> o.stderr, cause |-> o.exit]
    ELSE [out |-> o.stdout, failed |-> FALSE, stderr |-> <<>>, cause |-> 0]

\* Execute lines 17-21: on an error of cmd.Run() the pair ("", error made of
\* stderr and the run error), else (stdout, nil)
ExecuteReturn(o) ==
    IF o.exit # 0
    THEN [out |-> <<>>, failed |-> TRUE, stderr |-> o.stderr, cause |-> o.exit]
    ELSE [out |-> o.stdout, failed |-> FALSE, stderr |-> <<>>, cause |-> 0]

\* cmdutil.Execute lines 11-16: exec.Command, the two buffers, cmd.Run()
\* starts the command; there is no context and no timer
Execute_Run(p, o) ==
    /\ pc[p] = "idle"
    /\ pc' = [pc EXCEPT ![p] = "e_wait"]
    /\ loc' = [loc EXCEPT ![p] = [IdleLoc EXCEPT !.op = "execute", !.out = o]]
    /\ resp' = [resp EXCEPT ![p] = Reply("pending", "")]
    /\ hyp' = [hyp EXCEPT !.log = Append(@, Virsh("command", "args", p))]
    /\ UNCHANGED <<rt, sent, env, now, ticks, dirs, files, gets, docs, isos>>

\* cmd.Run() returns when the command has ended; Execute returns
Execute_Wait(p) ==
    /\ pc[p] = "e_wait"
    /\ ~loc[p].out.hangs
    /\ LET r == ExecuteReturn(loc[p].out) IN
       resp' = [resp EXCEPT ![p] = Reply(IF r.failed THEN "error" ELSE "nil", r)]
    /\ pc' = [pc EXCEPT ![p] = "done"]
    /\ UNCHANGED <<rt, sent, env, now, ticks, dirs, files, gets, pipeVars, loc>>

\* the characters a user name or a password is made of: a letter, the
\* separator, and the characters JSON gives a meaning to
Quote == "\""

Backslash == "\\"

NameChars == {"a", ":", ",", Quote, Backslash}

MaxStrLen == 2

\* the strings a request body can carry in "user" and "password"
Strings == UNION { [1..n -> NameChars] : n \in 0..MaxStrLen }

RECURSIVE EscapeChars(_)
\* the body of a JSON string as json.Marshal writes it: a quote and a
\* backslash each get a backslash in front
EscapeChars(str) ==
    IF str = <<>> THEN <<>>
    ELSE (IF Head(str) \in {Quote, Backslash} THEN <<Backslash, Head(str)>> ELSE <<Head(str)>>)
         \o EscapeChars(Tail(str))

\* variant: the string is written between quotes as it is
EncodeString_Raw(str) == <<Quote>> \o str \o <<Quote>>

\* json.Marshal of a string
EncodeString(str) == <<Quote>> \o EscapeChars(str) \o <<Quote>>

RECURSIVE JoinElements(_)
\* the encoded elements of a list with commas between them
JoinElements(list) ==
    IF list = <<>> THEN <<>>
    ELSE IF Len(list) = 1 THEN EncodeString(list[1])
    ELSE EncodeString(list[1]) \o <<",">> \o JoinElements(Tail(list))

\* helpers.ToJson(v) for a []string: string(json.Marshal(v))
ToJson(v) == <<"[">> \o JoinElements(v) \o <<"]">>

\* helpers.ToJson(v) for a bool
ToJsonBool(v) == IF v THEN <<"true">> ELSE <<"false">>

\* the third argument QemuAgentExec hands to virsh, lines 32-34: the
\* literal text with command put in as it is and arg and capture-output
\* put in through ToJson
QemuAgentExec(command, args, captureOutput) ==
    <<"{", Quote, "execute", Quote, ":", Quote, "guest-exec", Quote, ",", " ",
      Quote, "arguments", Quote, ":", "{", Quote, "path", Quote, ":", Quote>>
    \o command
    \o <<Quote, ",", " ", Quote, "arg", Quote, ":">>
    \o ToJson(args)
    \o <<",", " ", Quote, "capture-output", Quote, ":">>
    \o ToJsonBool(captureOutput)
    \o <<"}", "}">>

\* fmt.Sprintf("%s:%s", request.Username, request.Password)
UserPassword(user, password) == user \o <<":">> \o password

\* ResetPasswordHandler: a body that does not decode and an empty user name
\* or password end with 400; else chpasswd is run in the guest through
\* QemuAgentExec with the one argument user:password, and the reply is 200,
\* or 500 when the command failed
ResetPasswordHandler(p, id, decodes, user, password) ==
    /\ pc[p] = "idle"
    /\ pc' = [pc EXCEPT ![p] = "done"]
    /\ IF ~decodes
       THEN /\ resp' = [resp EXCEPT ![p] = Reply("400", "Invalid request body")]
            /\ loc' = [loc EXCEPT ![p] = [IdleLoc EXCEPT !.op = "password", !.failedAt = "decode"]]
            /\ UNCHANGED hyp
       ELSE IF user = <<>> \/ password = <<>>
       THEN /\ resp' = [resp EXCEPT ![p] = Reply("400", "Username and password are required")]
            /\ loc' = [loc EXCEPT ![p] = [IdleLoc EXCEPT !.op = "password", !.failedAt = "required",
                          !.req = [user |-> user, password |-> password]]]
            /\ UNCHANGED hyp
       ELSE /\ hyp' = [hyp EXCEPT !.log = Append(@, Virsh("qemu-agent-command", id, p))]
            /\ loc' = [loc EXCEPT ![p] = [IdleLoc EXCEPT !.op = "password",
                          !.req = [user |-> user, password |-> password],
                          !.out = QemuAgentExec(<<"chpasswd">>,
                                                <<UserPassword(user, password)>>, TRUE)]]
            /\ \E ok \in BOOLEAN :
                 resp' = [resp EXCEPT ![p] =
                            IF ok THEN Reply("200", "Password reset successfully")
                            ELSE Reply("500", "Failed to execute command")]
    /\ UNCHANGED <<rt, sent, env, now, ticks, dirs, files, gets, docs, isos>>

\* what earlier runs left for the library calls: nothing, or a regular file
\* at the path of vm1
LibHistories == { NoVM, FileAtVMDir }

InitLib ==
    /\ env \in { [CACHE_DIR |-> <<>>, CACHE_SECONDS |-> <<>>, DEFINITIONS_DIR |-> StoragePath] }
    /\ now = 1
    /\ ticks = 0
    /\ \E h \in LibHistories :
         /\ dirs = h.dirs
         /\ docs = h.docs
         /\ isos = h.isos
         /\ files = h.files
         /\ hyp = h.hyp
    /\ pc = [p \in Procs |-> "idle"]
    /\ loc = [p \in Procs |-> IdleLoc]
    /\ resp = [p \in Procs |-> Reply("none", "")]
    /\ gets = [u \in URLs |-> 0]
    /\ sent = <<>>
    /\ rt = FreshProcess

NextLib ==
    \/ \E p \in Procs : AfterDirectoryCalls(p) /\ \E path \in VMDirs : CreateDirectory_Begin(p, path)
    \/ \E p \in Procs : CreateDirectory_Stat(p)
    \/ \E p \in Procs : CreateDirectory_Mkdir(p)
    \/ \E p \in Procs : CreateDirectory_Return(p)
    \/ \E p \in Procs : AfterDirectoryCalls(p) /\ \E path \in VMDirs : CreateDirectory_MkdirAll(p, path)
    \/ \E p \in Procs : Alone(p) /\ \E dominfo \in DomInfoOutputs : ParseDomainStatus_Call(p, dominfo)
    \/ \E p \in Procs : Alone(p) /\ \E o \in CommandOutcomes : Execute_Run(p, o)
    \/ \E p \in Procs : Execute_Wait(p)
    \/ \E p \in Procs : Alone(p) /\ \E id \in VMIDs, decodes \in BOOLEAN, user, password \in Strings :
            ResetPasswordHandler(p, id, decodes, user, password)

SpecLib == InitLib /\ [][NextLib]_vars

-----------------------------------------------------------------------------
(* The server process: AuthMiddleware, RetrieveVMHandler and the shared
   hypervisor connection, main and gracefulShutdown *)

\* the pieces an Authorization header and AUTH_TOKEN are made of
HeaderPieces == {"Bearer", " ", "t", "x"}

MaxHeaderLen == 4

\* the Authorization headers of requests; <<>> is no header
Headers == UNION { [1..n -> HeaderPieces] : n \in 0..MaxHeaderLen }

\* the headers of the requests that are served side by side: none, and
\* Bearer with the token t
HeaderSamples == { <<>>, <<"Bearer", " ", "t">> }

\* the values of AUTH_TOKEN: unset, a word, a word with a space in it
Tokens == { <<>>, <<"t">>, <<"t", " ", "x">> }

RECURSIVE Split(_, _)
\* strings.Split(str, sep) for a one-character separator
Split(str, sep) ==
    LET at == { i \in DOMAIN str : str[i] = sep } IN
    IF at = {} THEN <<str>>
    ELSE LET i == CHOOSE i \in at : \A j \in at : i <= j
         IN <<SubSeq(str, 1, i - 1)>> \o Split(SubSeq(str, i + 1, Len(str)), sep)

\* lines 31-32 of part_006 (27-28 of middleware.go): the header is two
\* words, Bearer and the expected token
BearerMatches(expected, header) ==
    LET parts == Split(header, " ") IN
    Len(parts) = 2 /\ parts[1] = <<"Bearer">> /\ parts[2] = expected

\* AuthMiddleware of part_006 lines 13-39: what it does with a request
AuthDecision(expected, header) ==
    IF expected = <<>> THEN Reply("next", "")
    ELSE IF header = <<>> THEN Reply("401", "Missing Authorization header")
    ELSE IF ~BearerMatches(expected, header) THEN Reply("401", "Invalid or missing token")
    ELSE Reply("next", "")

\* AuthMiddleware of internal/server/middleware.go lines 13-35: an unset
\* AUTH_TOKEN is a server error
AuthDecision_Required(expected, header) ==
    IF expected = <<>> THEN Reply("500", "Server misconfiguration: AUTH_TOKEN not set")
    ELSE IF header = <<>> THEN Reply("401", "Missing Authorization header")
    ELSE IF ~BearerMatches(expected, header) THEN Reply("401", "Invalid or missing token")
    ELSE Reply("next", "")

\* a request GET /vm/{id} comes in while the API server listens and goes
\* through the middleware: it is answered there, or goes on to
\* RetrieveVMHandler
Authenticate(p, header, d) ==
    /\ rt.alive /\ rt.srv["api"] = "listening"
    /\ pc[p] = "idle"
    /\ loc' = [loc EXCEPT ![p] = [IdleLoc EXCEPT !.op = "retrieve",
                  !.req = [header |-> header],
                  !.failedAt = IF d.code = "next" THEN "none" ELSE "auth"]]
    /\ IF d.code = "next"
       THEN /\ pc' = [pc EXCEPT ![p] = "g_once"]
            /\ resp' = [resp EXCEPT ![p] = Reply("pending", "")]
       ELSE /\ pc' = [pc EXCEPT ![p] = "done"]
            /\ resp' = [resp EXCEPT ![p] = d]
    /\ UNCHANGED <<rt, sent, env, now, ticks, dirs, files, gets, pipeVars>>

AuthMiddleware(p, header) == Authenticate(p, header, AuthDecision(env.AUTH_TOKEN, header))

AuthMiddleware_Required(p, header) ==
    Authenticate(p, header, AuthDecision_Required(env.AUTH_TOKEN, header))

\* log.Fatalf: the process exits
Fatalf == [rt EXCEPT !.alive = FALSE]

\* variant: the function is run by every caller
OnceDo_Always(state) == "run"

\* sync.Once.Do as the caller finds it: the first caller runs the function,
\* a caller that comes while it runs waits, a later one returns at once
OnceDo(state) ==
    IF state = "new" THEN "run" ELSE IF state = "running" THEN "wait" ELSE "skip"

\* GetConnection line 57: once.Do
GetConnection_Once(p) ==
    /\ rt.alive
    /\ pc[p] = "g_once"
    /\ LET does == OnceDo(rt.once) IN
       IF does = "run"
       THEN /\ rt' = [rt EXCEPT !.once = "running"]
            /\ pc' = [pc EXCEPT ![p] = "g_dial"]
       ELSE IF does = "wait"
       THEN /\ pc' = [pc EXCEPT ![p] = "g_wait"]
            /\ UNCHANGED rt
       ELSE /\ pc' = [pc EXCEPT ![p] = "g_ret"]
            /\ UNCHANGED rt
    /\ UNCHANGED <<sent, env, now, ticks, dirs, files, gets, pipeVars, loc, resp>>

\* lines 59-64: net.Dial, then conn = libvirt.New(socket); a failed dial
\* ends the process
GetConnection_Dial(p) ==
    /\ rt.alive
    /\ pc[p] = "g_dial"
    /\ \E ok \in BOOLEAN :
         IF ok
         THEN /\ rt' = [rt EXCEPT !.dials = @ + 1, !.conn = rt.dials + 1]
              /\ pc' = [pc EXCEPT ![p] = "g_connect"]
         ELSE /\ rt' = Fatalf
              /\ UNCHANGED pc
    /\ UNCHANGED <<sent, env, now, ticks, dirs, files, gets, pipeVars, loc, resp>>

\* lines 65-68: conn.Connect(); a failure ends the process, else the
\* function returns and once is done
GetConnection_Connect(p) ==
    /\ rt.alive
    /\ pc[p] = "g_connect"
    /\ \E ok \in BOOLEAN :
         IF ok
         THEN /\ rt' = [rt EXCEPT !.once = "done"]
              /\ pc' = [pc EXCEPT ![p] = "g_ret"]
         ELSE /\ rt' = Fatalf
              /\ UNCHANGED pc
    /\ UNCHANGED <<sent, env, now, ticks, dirs, files, gets, pipeVars, loc, resp>>

\* a caller that waits in once.Do goes on when the function has returned
GetConnection_Wait(p) ==
    /\ rt.alive
    /\ pc[p] = "g_wait"
    /\ rt.once = "done"
    /\ pc' = [pc EXCEPT ![p] = "g_ret"]
    /\ loc' = [loc EXCEPT ![p].steps = Append(@, "waited")]
    /\ UNCHANGED <<rt, sent, env, now, ticks, dirs, files, gets, pipeVars, resp>>

\* line 69: return conn, err
GetConnection_Return(p) ==
    /\ rt.alive
    /\ pc[p] = "g_ret"
    /\ rt' = [rt EXCEPT !.returned = @ \cup {rt.conn}]
    /\ loc' = [loc EXCEPT ![p].out = <<rt.conn>>]
    /\ pc' = [pc EXCEPT ![p] = "h_list"]
    /\ UNCHANGED <<sent, env, now, ticks, dirs, files, gets, pipeVars, resp>>

\* RetrieveVMHandler lines 619-630: conn.ConnectListAllDomains; a failure
\* ends the process, else the domains are logged and the reply is empty
RetrieveVMHandler_List(p) ==
    /\ rt.alive
    /\ pc[p] = "h_list"
    /\ \E ok \in BOOLEAN :
         IF ok
         THEN /\ pc' = [pc EXCEPT ![p] = "done"]
              /\ resp' = [resp EXCEPT ![p] = Reply("200", "")]
              /\ UNCHANGED rt
         ELSE /\ rt' = Fatalf
              /\ UNCHANGED <<pc, resp>>
    /\ UNCHANGED <<sent, env, now, ticks, dirs, files, gets, pipeVars, loc>>

MaxRequests == 3

\* the goroutine of a finished request is gone; another request can come
NextRequest(p) ==
    /\ rt.alive
    /\ pc[p] = "done"
    /\ rt.served < MaxRequests
    /\ rt' = [rt EXCEPT !.served = @ + 1]
    /\ pc' = [pc EXCEPT ![p] = "idle"]
    /\ UNCHANGED <<sent, env, now, ticks, dirs, files, gets, pipeVars, loc, resp>>

\* main line 125: done := make(chan bool, 1)
DoneCapacity == 1

\* main lines 147-148: <-done, twice
MainReceives == 2

\* variant: main goes on after the first notification
MainReturns_First(received) == received >= 1

\* main lines 147-150: main goes on to its end when it has received from
\* done as often as it waits for it
MainReturns(received) == received = MainReceives

MaxSignals == 2

\* main lines 108-144: the servers are made, the two gracefulShutdown
\* goroutines and the two ListenAndServe goroutines are started
Main_Start ==
    /\ rt.alive /\ rt.main = "start"
    /\ rt' = [rt EXCEPT !.main = "wait",
                        !.gs = [s \in Servers |-> "spawned"],
                        !.srv = [s \in Servers |-> "starting"]]
    /\ UNCHANGED <<sent, env, now, ticks, dirs, files, gets, pipeVars, pc, loc, resp>>

\* main lines 132-144: ListenAndServe binds its port and serves; an error
\* other than ErrServerClosed ends the process
ListenAndServe(s) ==
    /\ rt.alive /\ rt.srv[s] = "starting"
    /\ \E ok \in BOOLEAN :
         rt' = IF ok THEN [rt EXCEPT !.srv[s] = "listening"] ELSE Fatalf
    /\ UNCHANGED <<sent, env, now, ticks, dirs, files, gets, pipeVars, pc, loc, resp>>

\* gracefulShutdown line 85: signal.NotifyContext; from here the goroutine
\* is told of SIGINT and SIGTERM
GracefulShutdown_Notify(s) ==
    /\ rt.alive /\ rt.gs[s] = "spawned"
    /\ rt' = [rt EXCEPT !.gs[s] = "waiting"]
    /\ UNCHANGED <<sent, env, now, ticks, dirs, files, gets, pipeVars, pc, loc, resp>>

\* the goroutines whose NotifyContext is in force (stop() runs at return)
Notified == { s \in Servers : rt.gs[s] \in {"waiting", "signalled", "closing"} }

\* SIGINT or SIGTERM arrives: with no NotifyContext in force the process is
\* killed, else the context of every registered goroutine is done
Signal ==
    /\ rt.alive /\ rt.main # "start"
    /\ rt.signals < MaxSignals
    /\ rt' = IF Notified = {}
             THEN [rt EXCEPT !.alive = FALSE, !.signals = @ + 1]
             ELSE [rt EXCEPT !.signals = @ + 1,
                             !.gs = [s \in Servers |->
                                       IF rt.gs[s] = "waiting" THEN "signalled" ELSE rt.gs[s]]]
    /\ UNCHANGED <<sent, env, now, ticks, dirs, files, gets, pipeVars, pc, loc, resp>>

\* gracefulShutdown lines 89-101: the context is done; Shutdown closes the
\* server and returns within its five seconds, with or without an error
GracefulShutdown_Shutdown(s) ==
    /\ rt.alive /\ rt.gs[s] = "signalled"
    /\ rt' = [rt EXCEPT !.gs[s] = "closing", !.srv[s] = "closed"]
    /\ UNCHANGED <<sent, env, now, ticks, dirs, files, gets, pipeVars, pc, loc, resp>>

\* gracefulShutdown line 104: done <- true, possible when the channel has
\* room; the goroutine returns
GracefulShutdown_Send(s) ==
    /\ rt.alive /\ rt.gs[s] = "closing"
    /\ Len(rt.done) < DoneCapacity
    /\ rt' = [rt EXCEPT !.gs[s] = "sent", !.done = Append(@, s)]
    /\ UNCHANGED <<sent, env, now, ticks, dirs, files, gets, pipeVars, pc, loc, resp>>

\* main lines 147-150: <-done; after the last one main returns and the
\* process ends
Main_Receive ==
    /\ rt.alive /\ rt.main = "wait"
    /\ rt.done # <<>>
    /\ rt' = IF MainReturns(rt.received + 1)
             THEN [rt EXCEPT !.done = Tail(@), !.received = @ + 1,
                             !.main = "returned", !.alive = FALSE]
             ELSE [rt EXCEPT !.done = Tail(@), !.received = @ + 1]
    /\ UNCHANGED <<sent, env, now, ticks, dirs, files, gets, pipeVars, pc, loc, resp>>

InitServer ==
    /\ env \in [CACHE_DIR : {<<>>}, CACHE_SECONDS : {<<>>}, AUTH_TOKEN : Tokens]
    /\ now = 1
    /\ ticks = 0
    /\ dirs = NoVM.dirs
    /\ docs = NoVM.docs
    /\ isos = NoVM.isos
    /\ files = NoVM.files
    /\ hyp = NoVM.hyp
    /\ pc = [p \in Procs |-> "idle"]
    /\ loc = [p \in Procs |-> IdleLoc]
    /\ resp = [p \in Procs |-> Reply("none", "")]
    /\ gets = [u \in URLs |-> 0]
    /\ sent = <<>>
    /\ rt = FreshProcess

NextServer ==
    \/ Main_Start
    \/ \E s \in Servers : ListenAndServe(s)
    \/ \E s \in Servers : GracefulShutdown_Notify(s)
    \/ Signal
    \/ \E s \in Servers : GracefulShutdown_Shutdown(s)
    \/ \E s \in Servers : GracefulShutdown_Send(s)
    \/ Main_Receive
    \/ \E p \in Procs, header \in HeaderSamples : AuthMiddleware(p, header)
    \/ \E p \in Procs, header \in HeaderSamples : AuthMiddleware_Required(p, header)
    \/ \E p \in Procs : GetConnection_Once(p)
    \/ \E p \in Procs : GetConnection_Dial(p)
    \/ \E p \in Procs : GetConnection_Connect(p)
    \/ \E p \in Procs : GetConnection_Wait(p)
    \/ \E p \in Procs : GetConnection_Return(p)
    \/ \E p \in Procs : RetrieveVMHandler_List(p)
    \/ \E p \in Procs : NextRequest(p)

SpecServer == InitServer /\ [][NextServer]_vars

\* the process once main has started everything and the API server listens
ServingProcess ==
    [FreshProcess EXCEPT !.main = "wait",
                         !.gs = [s \in Servers |-> "waiting"],
                         !.srv = [s \in Servers |-> "listening"]]

\* one request at a time, with any header, through either middleware
InitAuth ==
    /\ env \in [CACHE_DIR : {<<>>}, CACHE_SECONDS : {<<>>}, AUTH_TOKEN : Tokens]
    /\ now = 1
    /\ ticks = 0
    /\ dirs = NoVM.dirs
    /\ docs = NoVM.docs
    /\ isos = NoVM.isos
    /\ files = NoVM.files
    /\ hyp = NoVM.hyp
    /\ pc = [p \in Procs |-> "idle"]
    /\ loc = [p \in Procs |-> IdleLoc]
    /\ resp = [p \in Procs |-> Reply("none", "")]
    /\ gets = [u \in URLs |-> 0]
    /\ sent = <<>>
    /\ rt = ServingProcess

NextAuth ==
    \/ \E p \in Procs : Alone(p) /\ \E header \in Headers : AuthMiddleware(p, header)
    \/ \E p \in Procs : Alone(p) /\ \E header \in Headers : AuthMiddleware_Required(p, header)
    \/ \E p \in Procs : GetConnection_Once(p)
    \/ \E p \in Procs : GetConnection_Dial(p)
    \/ \E p \in Procs : GetConnection_Connect(p)
    \/ \E p \in Procs : GetConnection_Return(p)
    \/ \E p \in Procs : RetrieveVMHandler_List(p)

SpecAuth == InitAuth /\ [][NextAuth]_vars

-----------------------------------------------------------------------------
(* Properties of the image cache (SpecCache) *)

\* goroutines between os.Create and the return of DownloadFile on a path
Writers(path) ==
    { p \in Procs : pc[p] \in {"dl_get", "dl_copy", "dl_chmod"} /\ loc[p].target = path }

\* the file a finished request delivered
Delivered(p) == files[loc[p].dst]

\* the window the configuration asks for, read off the documentation:
\* unset or not an integer -> 7 days, otherwise the number written
ExpectedWindow(str) ==
    CASE str = <<>> -> 604800
      [] str = <<"2", "x">> -> 604800
      [] str = <<"0">> -> 0
      [] str = <<"2">> -> 2
      [] str = <<"-", "1">> -> 0 - 1
      [] str = <<"1", "0">> -> 10

\* C1: concurrent resolve requests for one locator that had no cache entry
\* when they were made download it exactly once, and every one of them that
\* reports success has delivered the complete file with the requested mode.
C1_SingleFlight ==
    \A u \in URLs :
      LET R == { p \in Procs : loc[p].op = "resolve" /\ loc[p].url = u /\ loc[p].uncached }
          others == { q \in Procs : loc[q].op # "none" /\ loc[q].url # u
                                     /\ Base(loc[q].url) = Base(u) }
      IN (R # {} /\ others = {} /\ \A p \in R : pc[p] = "done" /\ resp[p].code = "ok")
         => /\ Cardinality({ p \in R : loc[p].dlCalls = 1 }) = 1
            /\ \A p \in R : /\ Complete(Delivered(p), u)
                            /\ Delivered(p).mode = RequestedMode

\* C2: at most one download is in flight per cache path, and no request is
\* about to copy a cache file that another request is still writing.
C2_OneWriterNoPartialRead ==
    \A u \in URLs :
      LET path == Join(CacheDirName, Base(u))
      IN /\ Cardinality(Writers(path)) <= 1
         /\ \A p \in Procs :
              (pc[p] = "r_copy" /\ CacheFilePath(loc[p].url) = path)
              => Writers(path) \ {p} = {}

\* C3: a failed download leaves nothing a later resolve accepts: whenever a
\* request decides for the cache copy while nobody is writing the cache file,
\* that file is a complete template body, never the remains of a failed
\* download.
C3_NoLeftoverAccepted ==
    [][ \A p \in Procs :
          (pc[p] = "r_check" /\ pc'[p] = "r_copy"
             /\ Writers(CacheFilePath(loc[p].url)) = {})
          => \E u \in URLs : Complete(files[CacheFilePath(loc[p].url)], u)
      ]_vars

\* C4: at the freshness decision, an entry younger than the window is copied
\* without any download or network request, an entry older than the window is
\* downloaded again, and a request never downloads more than once.
C4_Freshness ==
    [][ \A p \in Procs :
          /\ loc'[p].dlCalls <= 1
          /\ (pc[p] = "r_check" /\ pc'[p] # "r_check") =>
               LET f == files[Join(CacheDirName, Base(loc[p].url))]
                   W == ExpectedWindow(env.CACHE_SECONDS)
               IN /\ (f.exists /\ now < f.mtime + W) =>
                        (pc'[p] = "r_copy" /\ loc'[p].dlCalls = 0 /\ gets' = gets)
                  /\ (f.exists /\ now > f.mtime + W) =>
                        (pc'[p] = "dl_create" /\ loc'[p].dlCalls = 1
                         /\ loc'[p].target = Join(CacheDirName, Base(loc[p].url)))
          /\ (pc[p] = "r_copy" /\ pc'[p] # "r_copy") => gets' = gets
      ]_vars

\* C4 witness: one request was served from the cache without a download and
\* another one has just decided to refresh an entry older than the window.
C4_Witness ==
    \E p, q \in Procs :
      /\ pc[p] = "done" /\ resp[p].code = "ok" /\ loc[p].dlCalls = 0
      /\ Complete(Delivered(p), loc[p].url)
      /\ pc[q] = "dl_create" /\ loc[q].target \in CachePaths
      /\ files[loc[q].target].exists
      /\ ExpectedWindow(env.CACHE_SECONDS) > 0
      /\ now > files[loc[q].target].mtime + ExpectedWindow(env.CACHE_SECONDS)

\* C5: a successful resolve delivers bytes of the locator that was asked for,
\* never bytes cached for another locator.
C5_DistinctLocators ==
    \A p \in Procs :
      (pc[p] = "done" /\ resp[p].code = "ok")
      => \A i \in DOMAIN Delivered(p).data :
           Delivered(p).data[i] = Hole \/ Delivered(p).data[i].src = loc[p].url

\* C6: with CACHE_DIR unset a resolve downloads straight to the destination:
\* the cache directory and every cache entry stay as they were, and no request
\* reaches the cache lookup or the copy from the cache.
C6_DisabledBypassesCache ==
    /\ [][ env.CACHE_DIR = <<>> =>
             /\ (CacheDirName \in dirs') = (CacheDirName \in dirs)
             /\ \A c \in CachePaths : files'[c] = files[c] ]_vars
    /\ [](env.CACHE_DIR = <<>> =>
            \A p \in Procs :
              /\ pc[p] \notin {"r_check", "r_copy"}
              /\ pc[p] \in {"dl_create", "dl_get", "dl_copy", "dl_chmod"}
                   => loc[p].target = loc[p].dst
              /\ (pc[p] = "done" /\ resp[p].code = "ok")
                   => (Complete(Delivered(p), loc[p].url) /\ loc[p].dlCalls = 1))

\* C6 witness: caching disabled, an entry of an earlier run is in the cache
\* directory, and a request has delivered its download.
C6_Witness ==
    /\ env.CACHE_DIR = <<>>
    /\ \E c \in CachePaths : files[c].exists
    /\ \E p \in Procs : /\ pc[p] = "done" /\ resp[p].code = "ok"
                        /\ Complete(Delivered(p), loc[p].url)
                        /\ gets[loc[p].url] >= 1

\* C7: with caching enabled and CACHE_SECONDS=0 no request copies from the
\* cache without having downloaded: every request that reaches the copy or
\* reports success has performed its own download.
C7_ZeroWindowAlwaysRefreshes ==
    (env.CACHE_DIR # <<>> /\ env.CACHE_SECONDS = <<"0">>) =>
      \A p \in Procs :
        /\ pc[p] = "r_copy" => loc[p].dlCalls = 1
        /\ (pc[p] = "done" /\ resp[p].code = "ok") => loc[p].dlCalls = 1
        /\ pc[p] \in {"dl_create", "dl_get", "dl_copy", "dl_chmod"} =>
             loc[p].target = CacheFilePath(loc[p].url)

\* C7 witness: window 0, the entry existed when the request was made, and the
\* request still downloaded before it delivered.
C7_Witness ==
    /\ env.CACHE_DIR # <<>> /\ env.CACHE_SECONDS = <<"0">>
    /\ \E p \in Procs : /\ pc[p] = "done" /\ resp[p].code = "ok"
                        /\ ~loc[p].uncached /\ loc[p].dlCalls = 1
                        /\ gets[loc[p].url] >= 1

\* C8: the duration a request computes is 604800 seconds when CACHE_SECONDS
\* is unset or not an integer, and the configured number of seconds otherwise.
C8_WindowDefault ==
    \A p \in Procs :
      pc[p] \notin {"idle", "r_entry"} => loc[p].dur = ExpectedWindow(env.CACHE_SECONDS)

\* C8 witness: a request has run with an unparsable CACHE_SECONDS, computed
\* the default and kept an entry older than a day as fresh.
C8_Witness ==
    \E p \in Procs :
      /\ pc[p] = "done" /\ resp[p].code = "ok"
      /\ env.CACHE_SECONDS = <<"2", "x">>
      /\ loc[p].dur = DefaultCacheSeconds
      /\ loc[p].dlCalls = 0
      /\ now > 86400

-----------------------------------------------------------------------------
(* Properties of the provisioning pipeline (Spec) *)

\* the cloud-init documents a request supplies
SuppliedCloudInit(req) == { n \in CloudInitNames : CloudInitFiles(req)[n] # <<>> }

\* the steps of Create before define, all succeeded and in the order of the
\* contract: directory, snapshot, device definition, the supplied
\* customization documents (any order), image synthesis, resolve, resize
StepsBeforeDefine(l) ==
    LET s == l.steps
        k == Cardinality(SuppliedCloudInit(l.req))
    IN /\ Len(s) = 6 + k
       /\ SubSeq(s, 1, 3) = <<"mkdir", "server.json", "server.xml">>
       /\ { s[i] : i \in 4..(3 + k) } = SuppliedCloudInit(l.req)
       /\ SubSeq(s, 4 + k, 6 + k) = <<"iso", "resolve", "resize">>

\* the define commands a request has issued
DefinesBy(p) == { i \in DOMAIN hyp.log : hyp.log[i].cmd = "define" /\ hyp.log[i].by = p }

\* C9: whenever a Create request issues a command to the hypervisor, it is
\* its first and only define, all earlier steps have succeeded in order, their
\* results are on disk, and the argument is server.xml in the VM directory.
C9_CreateOrdering ==
    [][ \A p \in Procs :
          (loc[p].op = "create" /\ hyp'.log # hyp.log
             /\ hyp'.log[Len(hyp'.log)].by = p)
          => LET e == hyp'.log[Len(hyp'.log)]
                 dir == Join(loc[p].req.disks[1].path, loc[p].req.id)
             IN /\ e.cmd = "define"
                /\ DefinesBy(p) = {}
                /\ Len(hyp'.log) = Len(hyp.log) + 1
                /\ StepsBeforeDefine(loc[p])
                /\ dir \in dirs
                /\ docs[Join(dir, "server.json")].exists
                /\ docs[Join(dir, "server.xml")].exists
                /\ \A n \in SuppliedCloudInit(loc[p].req) : docs[Join(dir, n)].exists
                /\ isos[dir].exists
                /\ files[Join(dir, "0.img")].exists
                /\ e.arg = Join(dir, "server.xml")
      ]_vars

\* C9 witness: a Create request with customization documents has defined its
\* domain and replied with success.
C9_Witness ==
    \E p \in Procs :
      /\ loc[p].op = "create" /\ resp[p].code = "200"
      /\ loc[p].req.cloudInit = SomeCloudInit
      /\ DefinesBy(p) # {}
      /\ "vm1" \in hyp.defined

\* a step of p fails in this transition: the handler was in the middle of its
\* steps and ends without having completed define
StepFails(p) ==
    /\ loc[p].op \in {"create", "define"}
    /\ pc[p] \notin {"idle", "done"}
    /\ pc'[p] = "done"
    /\ loc'[p].steps = loc[p].steps

\* what the completed steps of a request left on disk is still there
CompletedRemain(p) ==
    LET l == loc'[p] IN
    \A i \in DOMAIN l.steps :
      CASE l.steps[i] = "mkdir" -> l.vmDir \in dirs'
        [] l.steps[i] \in DocNames -> docs'[Join(l.vmDir, l.steps[i])].exists
        [] l.steps[i] = "iso" -> isos'[l.vmDir].exists
        [] l.steps[i] \in {"resolve", "resize"} -> files'[l.dst].exists
        [] OTHER -> TRUE

\* C10: a failing step ends the request with an error reply; afterwards the
\* request takes no step and its reply never changes; success is replied only
\* when every step succeeded; and the failure removes nothing: directories,
\* documents, images stay as the completed steps left them.
C10_CreateFailurePolicy ==
    [][ \A p \in Procs :
          /\ StepFails(p) =>
               /\ resp'[p].code = "500"
               /\ dirs' = dirs /\ docs' = docs /\ isos' = isos
               /\ \A f \in DOMAIN files : files[f].exists => files'[f].exists
               /\ CompletedRemain(p)
          /\ resp[p].code \in {"400", "500"} =>
               /\ pc[p] = "done"
               /\ pc'[p] = pc[p] /\ loc'[p] = loc[p] /\ resp'[p] = resp[p]
          /\ (resp'[p].code \in {"200", "201"} /\ resp[p] # resp'[p]) =>
               /\ resp[p].code = "pending"
               /\ loc'[p].failedAt = "none"
               /\ loc'[p].steps[Len(loc'[p].steps)] = "define"
               /\ loc[p].op = "create" => StepsBeforeDefine(loc[p])
      ]_vars

\* C10 witness: a Create request failed at define after everything else
\* succeeded; it replied with an error, and its directory, documents and
\* image are on disk.
C10_Witness ==
    \E p \in Procs :
      /\ loc[p].op = "create" /\ pc[p] = "done"
      /\ resp[p].code = "500" /\ loc[p].failedAt = "c_define"
      /\ loc[p].vmDir \in dirs
      /\ docs[Join(loc[p].vmDir, "server.xml")].exists
      /\ docs[Join(loc[p].vmDir, "server.json")].exists
      /\ files[loc[p].dst].exists
      /\ hyp.defined = {}

\* a well-formed body that lacks a field Create (or Define) requires
MissingRequired(op, req) ==
    /\ req.body = "json"
    /\ \/ req.id = ""
       \/ req.xmlConfig = <<>>
       \/ op = "create" /\ (req.template.nil \/ req.template.imageURL = <<>>)
       \/ op = "create" /\ Len(req.disks) = 0

\* C11: a Create (or Define) request that lacks a required field is answered
\* with a validation error in the step that reads it; that step changes no
\* directory, document, file, image, download count or hypervisor state, and
\* the request takes no step afterwards.
C11_CreateValidation ==
    [][ \A p \in Procs :
          /\ (pc[p] = "idle" /\ pc'[p] # "idle" /\ loc'[p].op \in {"create", "define"}
                /\ MissingRequired(loc'[p].op, loc'[p].req))
             => /\ resp'[p].code = "400"
                /\ pc'[p] = "done"
                /\ dirs' = dirs /\ docs' = docs /\ files' = files /\ isos' = isos
                /\ hyp' = hyp /\ gets' = gets
          /\ resp[p].code = "400"
             => /\ pc'[p] = "done" /\ loc'[p] = loc[p]
                /\ loc[p].steps = <<>> /\ loc[p].dlCalls = 0
                /\ DefinesBy(p) = {}
      ]_vars

\* C11 witness: a Create request without disks was rejected while the other
\* request had already created its directory.
C11_Witness ==
    \E p, q \in Procs :
      /\ loc[p].op = "create" /\ resp[p].code = "400"
      /\ loc[p].req.body = "json" /\ Len(loc[p].req.disks) = 0
      /\ loc[q].op = "create" /\ Len(loc[q].steps) >= 1
      /\ loc[q].vmDir \in dirs

\* C12: when an earlier Create failed after it had created the directory and
\* the same request is sent again, the directory step of the second Create
\* does not fail on the directory the first one left.
C12_CreateRetryable ==
    [][ \A p, q \in Procs :
          ( /\ p # q
            /\ loc[q].op = "create" /\ pc[q] = "done" /\ resp[q].code = "500"
            /\ Len(loc[q].steps) >= 1
            /\ loc[p].op = "create" /\ loc[p].req = loc[q].req
            /\ pc[p] = "c_stat" /\ pc'[p] # "c_stat" )
          => pc'[p] # "done"
      ]_vars

\* the request a goroutine is working on concerns this VM ID
InProgressOn(p, id) ==
    /\ pc[p] \notin {"idle", "done"}
    /\ loc[p].req.body # "none"
    /\ loc[p].req.id = id

\* C13: for every VM ID no request is working on, a VM directory of that ID
\* exists exactly if the hypervisor holds a domain definition of that ID.
C13_DirectoryIffDomain ==
    \A id \in VMIDs :
      (\A p \in Procs : ~InProgressOn(p, id))
      => ((\E r \in Roots : Join(r, id) \in dirs) <=> (id \in hyp.defined))

-----------------------------------------------------------------------------
(* Properties of Delete and Update (SpecVM) *)

IsDelete(p) == loc[p].op \in {"delete", "deldom"}

\* no directory of this VM ID is left under any storage path
NoVMDirectory(id, ds) == \A r \in Roots : Join(r, id) \notin ds

\* the last command the hypervisor was given in this step, issued by p
Issues(p, cmd) ==
    /\ Len(hyp'.log) = Len(hyp.log) + 1
    /\ hyp'.log[Len(hyp'.log)].by = p
    /\ hyp'.log[Len(hyp'.log)].cmd = cmd

\* C14: a failing power-off never ends a Delete; a Delete whose power-off
\* failed and whose undefine succeeded ends with success unless the removal of
\* the directory itself broke; and when a Delete replies success, the domain
\* definition and every directory of that VM are gone.
C14_DeletePoweredOff ==
    [][ \A p \in Procs : IsDelete(p) =>
          /\ (pc[p] = "x_destroy" /\ pc'[p] # pc[p]) => pc'[p] = "x_undefine"
          /\ ( /\ pc[p] \notin {"idle", "done"} /\ pc'[p] = "done"
               /\ "destroy" \notin Range(loc[p].steps)
               /\ "undefine" \in Range(loc[p].steps)
               /\ loc'[p].failedAt # "x_remove" )
             => resp'[p].code = "200"
          /\ (resp'[p].code = "200" /\ resp[p].code # "200")
             => /\ loc[p].req.id \notin hyp'.defined
                /\ NoVMDirectory(loc[p].req.id, dirs')
      ]_vars

\* C15: a Delete that reaches undefine while the hypervisor holds no
\* definition of the VM ends there with an error, and neither the power-off
\* attempt nor the failing undefine changes a directory, document, image or
\* file; nothing is done afterwards.
C15_DeleteUndefined ==
    [][ \A p \in Procs : IsDelete(p) =>
          /\ (pc[p] = "x_undefine" /\ pc'[p] # pc[p] /\ loc[p].req.id \notin hyp.defined)
             => /\ pc'[p] = "done"
                /\ resp'[p].code = "500"
                /\ loc'[p].failedAt = "x_undefine"
                /\ dirs' = dirs /\ docs' = docs /\ files' = files /\ isos' = isos
          /\ (pc[p] = "x_destroy" /\ pc'[p] # pc[p])
             => (dirs' = dirs /\ docs' = docs /\ files' = files /\ isos' = isos)
          /\ resp[p].code = "500" => (pc'[p] = "done" /\ loc'[p] = loc[p])
      ]_vars

\* C15 witness: a Delete on a directory a failed Create left (no domain) has
\* failed at undefine and the directory still holds its request snapshot.
C15_Witness ==
    \E p \in Procs :
      /\ IsDelete(p) /\ pc[p] = "done" /\ resp[p].code = "500"
      /\ loc[p].failedAt = "x_undefine"
      /\ loc[p].req.id = "vm1" /\ "vm1" \notin hyp.defined
      /\ loc[p].vmDir \in dirs
      /\ docs[Join(loc[p].vmDir, "server.json")].exists

UpdateStep(p) ==
    /\ loc'[p].op = "update"
    /\ loc'[p].vmDir \in VMDirs
    /\ pc'[p] # pc[p]

\* the step in which an Update sends its reply
UpdateFinishes(p) == UpdateStep(p) /\ pc'[p] = "done"

\* the VM of l is in the defined state: directory, request snapshot, XML
\* document and first disk image are there and the hypervisor has the domain
DefinedVM(l) ==
    /\ l.vmDir \in dirs
    /\ docs[Join(l.vmDir, "server.json")].exists
    /\ docs[Join(l.vmDir, "server.xml")].exists
    /\ files[Join(l.vmDir, "0.img")].exists
    /\ l.req.id \in hyp.defined

\* C17: by the time an Update of a defined VM replies, a first disk whose
\* requested capacity is above the recorded one has the requested size, one
\* whose requested capacity is not above it has the size it had; and no step
\* of an Update makes an image smaller.
C17_CapacityMonotone ==
    [][ \A p \in Procs :
          /\ (UpdateFinishes(p) /\ DefinedVM(loc'[p]))
             => LET img == Join(loc'[p].vmDir, "0.img")
                    old == docs[Join(loc'[p].vmDir, "server.json")].text[1].disks[1].capacity
                    new == loc'[p].req.disks[1].capacity
                IN IF new > old THEN files'[img].size = new
                   ELSE files'[img].size = files[img].size
          /\ UpdateStep(p)
             => \A f \in DOMAIN files :
                  (files[f].exists /\ files'[f].exists) => files'[f].size >= files[f].size
      ]_vars

\* C18: no step of an Update for a VM whose directory does not exist creates
\* that directory or changes a document, and such an Update replies an error.
C18_UpdateNeedsDirectory ==
    [][ \A p \in Procs :
          (UpdateStep(p) /\ loc'[p].vmDir \notin dirs)
          => /\ loc'[p].vmDir \notin dirs'
             /\ docs' = docs
             /\ pc'[p] = "done" => resp'[p].code \in {"400", "404", "500"}
      ]_vars

C20_UpdateNoHypervisor ==
    [][ \A p \in Procs :
          /\ UpdateStep(p) => hyp' = hyp
          /\ loc[p].op = "update" => \A i \in DOMAIN hyp.log : hyp.log[i].by # p
      ]_vars

\* C20 witness: an Update that got as far as removing the old files has
\* replied while the hypervisor holds domains defined by other requests
C20_Witness ==
    \E p \in Procs :
      /\ loc[p].op = "update" /\ pc[p] = "done"
      /\ loc[p].failedAt = "u_remove"
      /\ hyp.defined # {}

-----------------------------------------------------------------------------
(* Properties of the per-VM operations (SpecOps) *)

\* the commands p has issued, in order
CommandsBy(log, p) == SelectSeq(log, LAMBDA e : e.by = p)

\* C21: the step in which a lifecycle handler runs its command is its last,
\* it issues the command and replies 200 "success", whether the command
\* succeeded or failed.
C21_LifecycleAlwaysSuccess ==
    [][ \A p \in Procs :
          (pc[p] = "l_cmd" /\ pc'[p] # pc[p])
          => /\ pc'[p] = "done"
             /\ Len(CommandsBy(hyp'.log, p)) = 1
             /\ resp'[p] = Reply("200", "success")
      ]_vars

\* C21 witness: a lifecycle command failed, which was only noted, and the
\* caller was told success
C21_Witness ==
    \E p \in Procs :
      /\ pc[p] = "done" /\ loc[p].failedAt = "logged"
      /\ HandlerOf(loc[p]) \in LifecycleHandlers
      /\ loc[p].steps = <<>>
      /\ resp[p].code = "200"

\* the lifecycle action a request path asks for (the route of the graceful
\* shutdown is registered as "shutdowm")
ActionOf(path) == IF path = "shutdowm" THEN "shutdown" ELSE path

\* the control-plane command that corresponds to each lifecycle action
CommandOf(action) == IF action = "stop" THEN "destroy" ELSE action

\* C22: a lifecycle request that reached its handler has issued exactly one
\* command when it ends, the one that corresponds to the action asked for.
C22_OneCorrespondingCommand ==
    [][ \A p \in Procs :
          (pc[p] = "l_cmd" /\ pc'[p] = "done")
          => CommandsBy(hyp'.log, p) =
               << Virsh(CommandOf(ActionOf(loc[p].req.path)), loc[p].req.id, p) >>
      ]_vars

\* p's request enters DomainMiddleware in this step
GateStep(p) == pc[p] = "idle" /\ loc'[p].op \in {"domain", "deldom"}

NewQueries(p) ==
    { i \in DOMAIN hyp'.log \ DOMAIN hyp.log :
        hyp'.log[i].by = p /\ hyp'.log[i].cmd \in Range(GuestQueries) }

\* C25: guest queries are issued only by a status request that asked for the
\* remote state and whose ping succeeded, and the ping only when the remote
\* state was asked for; once the status was parsed the request ends with 200
\* and that status, with the remote state omitted after a failed ping and the
\* data of each failed query left out.
C25_ExtendedStatus ==
    [][ \A p \in Procs :
          /\ NewQueries(p) # {}
             => /\ loc[p].req.remoteState
                /\ "guest-ping" \in Range(loc[p].steps)
          /\ Issues(p, "guest-ping") => loc[p].req.remoteState
          /\ (pc[p] \in {"s_ping", "s_remote"} /\ pc'[p] # pc[p])
             => /\ resp'[p].msg.status = resp[p].msg.status
                /\ pc'[p] = "done" => resp'[p].code = "200"
                /\ (pc[p] = "s_ping" /\ pc'[p] = "done")
                   => /\ resp'[p].msg.remoteState = "omitted"
                      /\ "guest-ping" \notin Range(loc'[p].steps)
      ]_vars

\* C25 witness: an extended status was sent although some of the queries
\* failed, and a status was sent after a failed ping
C25_Witness ==
    \E p, q \in Procs :
      /\ resp[p].code = "200" /\ "remote" \in Range(loc[p].steps)
      /\ resp[p].msg.remoteState["guest-get-osinfo"] = "zero"
      /\ resp[p].msg.remoteState["guest-get-time"] = "data"
      /\ resp[q].code = "200" /\ loc[q].req.remoteState
      /\ "remote" \notin Range(loc[q].steps)

\* the lifecycle transition p completes in this step, if any
Transition(p) ==
    IF /\ Len(loc'[p].steps) = Len(loc[p].steps) + 1
       /\ Last(loc'[p].steps) \in {"define", "start", "destroy", "shutdown", "reboot", "reset", "undefine"}
    THEN Last(loc'[p].steps) ELSE "none"

\* C27: with a webhook endpoint configured, the step that completes a
\* lifecycle transition posts the event of that transition for that VM.
C27_EventNotification ==
    [][ \A p \in Procs :
          (env.WEBHOOK_URL # <<>> /\ Transition(p) # "none")
          => /\ Len(sent') = Len(sent) + 1
             /\ Last(sent').id = loc[p].req.id
             /\ Last(sent').type = EventType(Transition(p))
      ]_vars

-----------------------------------------------------------------------------
(* Properties of the library calls (SpecLib) *)

\* the lines of a text that begin with the field name State and a colon
StateLinesOf(text) ==
    { i \in DOMAIN text :
        Len(text[i]) >= 2 /\ text[i][1] = "State" /\ text[i][2] = ":" }

\* a string without the white space at its two ends
Stripped(str) ==
    LET solid == { i \in DOMAIN str : str[i] # " " } IN
    IF solid = {} THEN <<>>
    ELSE SubSeq(str, CHOOSE i \in solid : \A j \in solid : i <= j,
                     CHOOSE i \in solid : \A j \in solid : i >= j)

\* C24: status parsing returns the trimmed value of the first line that
\* carries the State: field, and returns an error, never a default state,
\* when no line carries it
C24_StatusParsing ==
    \A p \in Procs :
        (pc[p] = "done" /\ loc[p].op = "parse") =>
            LET text == loc[p].out
                carrying == StateLinesOf(text)
            IN  IF carrying = {}
                THEN resp[p].code = "error"
                ELSE LET first == CHOOSE i \in carrying : \A j \in carrying : i <= j
                     IN /\ resp[p].code = "nil"
                        /\ resp[p].msg = Stripped(SubSeq(text[first], 3, Len(text[first])))

\* a text whose two lines both carry the field was parsed to the trimmed
\* value of the first one
C24_Witness ==
    \E p \in Procs :
        /\ pc[p] = "done" /\ loc[p].op = "parse"
        /\ loc[p].out = << <<"State", ":">>, <<"State", ":", " ", "running">> >>
        /\ resp[p] = Reply("nil", <<>>)

\* a call of CreateDirectory by p returns in this step
DirectoryCallReturns(p) ==
    /\ pc[p] # "done" /\ pc'[p] = "done"
    /\ loc'[p].op \in {"mkdir", "mkdirall"}

\* C26: createDirectory on a path that is already a directory succeeds and
\* leaves the directories as they were, and on a path occupied by a regular
\* file it fails with an error
C26_DirectoryIdempotence ==
    [][\A p \in Procs :
         DirectoryCallReturns(p) =>
            LET path == loc'[p].vmDir IN
            /\ StatKind(path) = "dir" => (resp'[p].code = "nil" /\ dirs' = dirs)
            /\ StatKind(path) = "file" => (resp'[p].code # "nil" /\ dirs' = dirs)]_vars

\* C29: an external command that never responds does not block its caller
\* for ever: a call that waits for its command can always come to an end
C29_BoundedExecution ==
    \A p \in Procs : pc[p] = "e_wait" => ENABLED Execute_Wait(p)

\* C30: a call of the command runner runs the command once; a non-zero exit
\* gives an error carrying the captured stderr and the exit error and no
\* stdout, a zero exit gives the captured stdout and no error
C30_CommandRunner ==
    \A p \in Procs :
        /\ (pc[p] = "e_wait" /\ loc[p].op = "execute") => Len(CommandsBy(hyp.log, p)) = 1
        /\ (pc[p] = "done" /\ loc[p].op = "execute") =>
              LET o == loc[p].out
                  r == resp[p].msg
              IN  /\ Len(CommandsBy(hyp.log, p)) = 1
                  /\ o.exit # 0 =>
                        /\ resp[p].code = "error"
                        /\ r.failed /\ r.stderr = o.stderr /\ r.cause = o.exit
                        /\ r.out = <<>>
                  /\ o.exit = 0 =>
                        /\ resp[p].code = "nil"
                        /\ ~r.failed /\ r.out = o.stdout

\* a command that printed to both streams and exited non-zero has returned
C30_Witness ==
    \E p \in Procs :
        /\ pc[p] = "done" /\ loc[p].op = "execute"
        /\ loc[p].out.exit = 2
        /\ loc[p].out.stdout = <<"out">> /\ loc[p].out.stderr = <<"err">>
        /\ resp[p].msg.out = <<>> /\ resp[p].msg.stderr = <<"err">>

\* reading JSON: a failed reading, and a reading with its value and the
\* position after it
NoReading == [ok |-> FALSE, val |-> <<>>, next |-> 0]

Reading(val, next) == [ok |-> TRUE, val |-> val, next |-> next]

RECURSIVE ReadChars(_, _, _)
\* the characters of a JSON string from position i, after its opening quote,
\* up to its closing quote; a backslash takes the next character with it
ReadChars(text, i, acc) ==
    IF i > Len(text) THEN NoReading
    ELSE IF text[i] = Quote THEN Reading(acc, i + 1)
    ELSE IF text[i] = Backslash
         THEN IF i + 1 <= Len(text) /\ text[i + 1] \in {Quote, Backslash}
              THEN ReadChars(text, i + 2, Append(acc, text[i + 1]))
              ELSE NoReading
    ELSE ReadChars(text, i + 1, Append(acc, text[i]))

\* a JSON string at position i
ReadString(text, i) ==
    IF i <= Len(text) /\ text[i] = Quote THEN ReadChars(text, i + 1, <<>>) ELSE NoReading

RECURSIVE ReadElements(_, _, _)
\* the strings of a JSON array from position i, where an element begins
ReadElements(text, i, acc) ==
    LET e == ReadString(text, i) IN
    IF ~e.ok \/ e.next > Len(text) THEN NoReading
    ELSE IF text[e.next] = "]" THEN Reading(Append(acc, e.val), e.next + 1)
    ELSE IF text[e.next] = "," THEN ReadElements(text, e.next + 1, Append(acc, e.val))
    ELSE NoReading

\* a JSON array of strings at position i
ReadArray(text, i) ==
    IF i + 1 <= Len(text) /\ text[i] = "["
    THEN IF text[i + 1] = "]" THEN Reading(<<>>, i + 2) ELSE ReadElements(text, i + 1, <<>>)
    ELSE NoReading

\* the literal tokens at position i
ReadTokens(text, i, tokens) ==
    IF i + Len(tokens) - 1 <= Len(text) /\ SubSeq(text, i, i + Len(tokens) - 1) = tokens
    THEN Reading(tokens, i + Len(tokens))
    ELSE NoReading

\* the guest-exec envelope as a JSON reader sees it: the object
\* {"execute": s, "arguments": {"path": s, "arg": [s...], "capture-output": b}}
\* and nothing else, or no reading when the text is not of that form
ReadEnvelope(text) ==
    LET k1 == ReadString(text, 2)
        v1 == ReadString(text, k1.next + 1)
        k2 == ReadString(text, v1.next + 2)
        k3 == ReadString(text, k2.next + 2)
        v3 == ReadString(text, k3.next + 1)
        k4 == ReadString(text, v3.next + 2)
        v4 == ReadArray(text, k4.next + 1)
        k5 == ReadString(text, v4.next + 2)
        v5 == k5.next + 1
    IN  IF /\ ReadTokens(text, 1, <<"{">>).ok
           /\ k1.ok /\ ReadTokens(text, k1.next, <<":">>).ok
           /\ v1.ok /\ ReadTokens(text, v1.next, <<",", " ">>).ok
           /\ k2.ok /\ ReadTokens(text, k2.next, <<":", "{">>).ok
           /\ k3.ok /\ ReadTokens(text, k3.next, <<":">>).ok
           /\ v3.ok /\ ReadTokens(text, v3.next, <<",", " ">>).ok
           /\ k4.ok /\ ReadTokens(text, k4.next, <<":">>).ok
           /\ v4.ok /\ ReadTokens(text, v4.next, <<",", " ">>).ok
           /\ k5.ok /\ ReadTokens(text, k5.next, <<":">>).ok
           /\ v5 <= Len(text) /\ text[v5] \in {"true", "false"}
           /\ ReadTokens(text, v5 + 1, <<"}", "}">>).ok
           /\ Len(text) = v5 + 2
        THEN [ok |-> TRUE,
              keys |-> <<k1.val, k2.val, k3.val, k4.val, k5.val>>,
              execute |-> v1.val, path |-> v3.val, arg |-> v4.val,
              capture |-> text[v5]]
        ELSE [ok |-> FALSE, keys |-> <<>>, execute |-> <<>>, path |-> <<>>,
              arg |-> <<>>, capture |-> ""]

\* a credential reset that was accepted and sent its command to the guest
ResetSent(p) ==
    /\ pc[p] = "done" /\ loc[p].op = "password"
    /\ loc[p].failedAt = "none"

\* C28: for every accepted user name and password the text sent to the guest
\* agent reads as the one envelope whose command is guest-exec of the fixed
\* path chpasswd, whose argument list is the single string user:password and
\* whose other fields are the fixed ones; an empty user name or password is
\* refused and sends nothing
C28_NoGuestInjection ==
    \A p \in Procs :
        /\ ResetSent(p) =>
             LET e == ReadEnvelope(loc[p].out) IN
             /\ e.ok
             /\ e.keys = << <<"execute">>, <<"arguments">>, <<"path">>, <<"arg">>,
                            <<"capture-output">> >>
             /\ e.execute = <<"guest-exec">>
             /\ e.path = <<"chpasswd">>
             /\ e.arg = << loc[p].req.user \o <<":">> \o loc[p].req.password >>
             /\ e.capture = "true"
             /\ Len(CommandsBy(hyp.log, p)) = 1
        /\ (pc[p] = "done" /\ loc[p].op = "password" /\ loc[p].failedAt # "none") =>
             /\ resp[p].code = "400"
             /\ CommandsBy(hyp.log, p) = <<>>

\* a user name that is a quote and a password that ends in a backslash were
\* accepted and sent
C28_Witness ==
    \E p \in Procs :
        /\ ResetSent(p)
        /\ loc[p].req.user = <<Quote>>
        /\ loc[p].req.password = <<",", Backslash>>
        /\ ReadEnvelope(loc[p].out).arg = << <<Quote, ":", ",", Backslash>> >>
-----------------------------------------------------------------------------
(* Properties of the server process (SpecServer, SpecAuth) *)

\* the callers that have got their handle from GetConnection
Holders == { p \in Procs : pc[p] \in {"h_list", "done"} /\ loc[p].op = "retrieve"
                           /\ loc[p].failedAt = "none" }

\* C31: however many callers call GetConnection, at once or one after the
\* other, the connection is established at most once, every caller gets
\* the one handle that was established, and once set the handle stays
C31_OneConnection ==
    [][/\ rt'.dials <= 1
       /\ rt'.returned \subseteq {1}
       /\ \A p \in Holders' : loc'[p].out = <<1>>
       /\ rt.once = "done" => rt'.conn = rt.conn]_vars

\* two requests have got the handle, one of them after waiting in once.Do
\* while the other made the connection, and a third request was served
C31_Witness ==
    /\ Holders = Procs
    /\ \E p \in Procs : loc[p].steps = <<"waited">>
    /\ rt.served >= 1
    /\ rt.dials = 1

\* C37: with AUTH_TOKEN set a request gets past the middleware only when
\* its Authorization header is exactly Bearer, a space and the token, and
\* every other request is answered 401; with AUTH_TOKEN unset every request
\* gets past it
C37_AuthenticationGate ==
    \A p \in Procs :
        loc[p].op = "retrieve" =>
            LET header == loc[p].req.header
                token == env.AUTH_TOKEN
                proceeds == loc[p].failedAt = "none"
            IN  IF token = <<>> THEN proceeds
                ELSE /\ proceeds => header = <<"Bearer", " ">> \o token
                     /\ ~proceeds => (pc[p] = "done" /\ resp[p].code = "401")

\* C38: main has returned only when both gracefulShutdown goroutines have
\* shut their server down and sent their notification, and a goroutine that
\* is about to send on done is never stuck: it can send, or main can
\* receive and make room
C38_GracefulShutdown ==
    /\ rt.main = "returned" =>
         \A s \in Servers : rt.gs[s] = "sent" /\ rt.srv[s] = "closed"
    /\ \A s \in Servers :
         (rt.alive /\ rt.gs[s] = "closing") =>
             (ENABLED GracefulShutdown_Send(s) \/ ENABLED Main_Receive)

\* after one signal both servers were shut down and main has returned
C38_Witness ==
    /\ rt.main = "returned"
    /\ rt.signals = 1
    /\ rt.received = 2
    /\ \A s \in Servers : rt.srv[s] = "closed"
-----------------------------------------------------------------------------
(* Properties of the customization image (SpecOps) *)

\* the customization image of directory d is made in this step
Synthesized(d) == isos'[d] # isos[d] /\ isos'[d].exists

\* C32: when the customization image of a VM directory is made, every
\* customization document the handlers write (meta-data, vendor-data,
\* user-data, network-config) that is in the directory is one of its inputs
C32_ImageInputs ==
    [][\A d \in VMDirs :
         Synthesized(d) =>
            \A n \in CloudInitNames :
                docs'[Join(d, n)].exists => n \in isos'[d].inputs]_vars

\* the customization handler serves the request of p in this step
CloudInitStep(p) == pc[p] = "i_body" /\ pc'[p] = "done"

\* C33: the customization handler writes a document only when its content
\* is not empty, and when the VM directory holds no customization document
\* the synthesis is run with the placeholder as its one input and, unless
\* the synthesis command itself fails, the image is made from it
C33_PlaceholderInput ==
    [][\A p \in Procs :
         CloudInitStep(p) =>
            LET dir == loc[p].vmDir
                req == loc[p].req
                none == \A n \in CloudInitNames \cup IsoCandidates :
                            ~docs'[Join(dir, n)].exists
            IN  /\ \A n \in CloudInitNames :
                     docs'[Join(dir, n)] # docs[Join(dir, n)] =>
                        /\ CloudInitFiles(req)[n] # <<>>
                        /\ docs'[Join(dir, n)].text = CloudInitFiles(req)[n]
                /\ (none /\ loc'[p].failedAt \in {"none", "i_iso"}) =>
                     loc'[p].out = {"/dev/null"}
                /\ (none /\ loc'[p].failedAt = "none") =>
                     isos'[dir] = [exists |-> TRUE, inputs |-> {"/dev/null"}]]_vars
-----------------------------------------------------------------------------
(* Further properties of Update, Define and Delete *)

\* C34: when an Update of a defined VM replies, with success or with an
\* error, the VM directory holds a request snapshot and an XML document
C34_UpdateKeepsDocuments ==
    [][\A p \in Procs :
         (UpdateFinishes(p) /\ DefinedVM(loc'[p])) =>
            /\ docs'[Join(loc'[p].vmDir, "server.json")].exists
            /\ docs'[Join(loc'[p].vmDir, "server.xml")].exists]_vars

\* C36: an Update whose disk list is empty is answered with a validation
\* error (400) and changes no directory, file or document
C36_EmptyDiskList ==
    [][\A p \in Procs :
         (/\ pc[p] = "idle" /\ pc'[p] # "idle"
          /\ loc'[p].op = "update"
          /\ loc'[p].req.disks = <<>>) =>
            /\ pc'[p] = "done"
            /\ resp'[p].code = "400"
            /\ UNCHANGED <<dirs, files, docs, isos>>]_vars

\* C39: a cache hit leaves the cache entry as it was: neither the freshness
\* check nor the copy of a resolve that downloaded nothing changes the
\* cached file (content, modification time, mode)
C39_HitLeavesEntry ==
    [][\A p \in Procs :
         (/\ pc[p] \in {"r_check", "r_copy"} /\ pc'[p] # pc[p]
          /\ loc'[p].dlCalls = 0) =>
            files'[CacheFilePath(loc[p].url)] = files[CacheFilePath(loc[p].url)]]_vars

\* a resolve was served from the cache without a download: the destination
\* holds the entry's content and the entry still carries its older stamp
C39_Witness ==
    \E p \in Procs :
        /\ pc[p] = "done" /\ loc[p].op = "resolve"
        /\ resp[p] = Reply("ok", "resolved")
        /\ loc[p].dlCalls = 0
        /\ UseCache
        /\ files[CacheFilePath(loc[p].url)].exists
        /\ files[loc[p].dst].exists
        /\ files[loc[p].dst].data = files[CacheFilePath(loc[p].url)].data
        /\ files[loc[p].dst].mtime > files[CacheFilePath(loc[p].url)].mtime

\* a Define by p and a Delete by q of the same VM directory have both replied
DefineAndDeleteDone(p, q) ==
    /\ pc[p] = "done" /\ loc[p].op = "define"
    /\ pc[q] = "done" /\ loc[q].op = "deldom"
    /\ loc[p].vmDir \in VMDirs
    /\ loc[q].vmDir = loc[p].vmDir

\* the hypervisor holds the domain id while the directory dir is absent
DomainWithoutDirectory(id, dir, h, ds) == id \in h.defined /\ dir \notin ds

\* C35 (as claimed): after a Define and a Delete of the same VM ID that ran
\* concurrently have both completed, the hypervisor never holds the domain
\* while the VM directory is absent
C35_DefineDeleteRace ==
    \A p, q \in Procs :
        DefineAndDeleteDone(p, q) =>
            ~DomainWithoutDirectory(loc[p].req.id, loc[p].vmDir, hyp, dirs)

\* C35 (amended): a domain comes to be defined without its directory only in
\* the directory removal of a Delete during whose call, after its undefine, a
\* define command of another request reached the hypervisor; a Define and a
\* Delete that run one after the other never leave that state
C35_RaceNeedsOverlap ==
    [][\A id \in VMIDs :
         LET dir == Join(env.DEFINITIONS_DIR, id) IN
         (/\ ~DomainWithoutDirectory(id, dir, hyp, dirs)
          /\ DomainWithoutDirectory(id, dir, hyp', dirs')) =>
            \E q \in Procs :
                /\ pc[q] = "x_remove" /\ pc'[q] = "done"
                /\ loc[q].vmDir = dir
                /\ \E i, j \in DOMAIN hyp.log :
                     /\ i < j
                     /\ hyp.log[i] = Virsh("undefine", id, q)
                     /\ hyp.log[j].cmd = "define"
                     /\ hyp.log[j].by # q]_vars

\* a Define replied 201 and a Delete of the same VM replied 200, and the
\* domain is defined while its directory is gone
C35_Witness ==
    \E p, q \in Procs :
        /\ DefineAndDeleteDone(p, q)
        /\ resp[p].code = "201"
        /\ resp[q].code = "200"
        /\ DomainWithoutDirectory(loc[p].req.id, loc[p].vmDir, hyp, dirs)
====
